---- MODULE Spec2Model ----
(***************************************************************************)
(* A model of the Teams meeting bot: the Orchestrator and the JoinProcedure *)
(* (procedures/orchestrator.ts) and the Notifier (lib/Notifier.ts).         *)
(*                                                                          *)
(* One bot process runs one single-threaded event loop.  Every action below *)
(* is one run-to-completion continuation of an async function: what runs    *)
(* between the settling of one awaited promise and the next await.          *)
(***************************************************************************)
EXTENDS Integers, Sequences, FiniteSets, TLC

\* ------------------------------------------------------------------ bounds
MaxClock == 1
MaxBackSteps == 1
MaxCalls == 2
MaxUrls == 2
MaxSends == 2
MaxSockets == 3
MaxSenders == 2
MaxJpCalls == 4
MaxRequests == 2
MaxQueries == 2
MaxObservations == 3
MaxStreams == 3
MaxWrites == 3
MaxCloses == 2
MaxNotifiers == 2

\* The values of the wall clock (new Date()), in milliseconds.  The wall clock
\* is not monotonic: two readings may be equal (the same millisecond) and a
\* later reading may be smaller than an earlier one (the clock was stepped
\* back, at most MaxBackSteps times in a run).  All the readings of one
\* continuation are equal.
Clock == 0 .. MaxClock

VARIABLES
    \* ---- the wall clock
    now,                \* what new Date() reads
    backSteps,          \* times the clock was stepped back so far
    \* ---- Orchestrator
    statusChanges,      \* Orchestrator.state.statusChanges
    browser,            \* Orchestrator.browser: 0 = null, else the browser's number
    page,               \* Orchestrator.page: 0 = null, else its browser's number
    browserOpen,        \* the browsers that are running (launched and not closed)
    joinProcedure,      \* Orchestrator.joinProcedure: 0 = null, else the page it holds
    jpStatusChanges,    \* JoinProcedure.state.statusChanges (<<>> while joinProcedure is null)
    captionsProcedure,  \* Orchestrator.captionsProcedure: 0 = null, else the page it holds
    meetingUrlIsUrl,    \* whether state.meetingUrl passes z.string().url()
    botId,              \* state.botId
    notifierUrls,       \* state.notifierUrls
    navigations,        \* number of page.goto calls made
    logClosed,          \* Logger.close() has run (the log file stream was ended)
    \* ---- the pending call of launch(), if any
    launchPc,           \* the await launch() is suspended at
    launchResult,       \* "none" | "pending" | "resolved" | "rejected"
    launchRejection,    \* the error launch() rejected with
    launchCalls,        \* number of calls of launch() so far
    stepRuns,           \* per step of launch(): times it ran in the current call
    stepFailure,        \* the error of the step that failed in the current call
    base,               \* Counts(statusChanges) when launch() was called
    \* ---- the pending call of shutdown(), if any
    closePc,            \* the await shutdown() is suspended at
    closing,            \* the browser whose close() shutdown() awaits (0: none)
    closeResult,        \* "none" | "pending" | "resolved" | "rejected"
    closeRejection,     \* the error shutdown() rejected with
    shutdownCalls,      \* number of calls of shutdown() so far
    closeInCall,        \* what isInMeeting told the pending shutdown(): "yes", "no", "none"
    closeBase,          \* the call_ended records there were when shutdown() was called
    \* ---- a caller of the JoinProcedure's public methods
    jpPc,               \* the await the pending JoinProcedure call is suspended at
    jpCalls,            \* number of calls of JoinProcedure methods so far
    jpLast,             \* the latest call that settled: method, observation, result
    \* ---- the bot launcher server and the Docker daemon
    containers,         \* per container name: "absent", "created" or "running"
    requests,           \* the POST /api/bot requests: body, progress, response
    bindings,           \* per container name: the PORT and the ports it was created with
    \* ---- the bot process (main) and its captions
    bot,                \* main's variable bot: 0 is null, 1 the Orchestrator
    mainPc,             \* "start", "constructed", "serving" or "exited"
    captions,           \* CaptionsProcedure.state.captions, the running transcript
    dispatches,         \* per caption line: the calls of the Notifier for it
    observations,       \* what the capture loop saw on the caption surface, in order
    queries,            \* number of getCaptions() calls and GET /captions requests so far
    lastQuery,          \* the latest of them: what was asked and what came back
    \* ---- the helper script, standalone launch
    scan,               \* find_free_port and run_teams_bot_standalone: their shell variables
    \* ---- the log file of a bot
    logs,               \* fileStreams, the streams, and the stream each Logger holds
    \* ---- the configuration handed from the launcher to the bot
    config,             \* a request, the Env made of it, and what envSchema makes of the Env
    \* ---- Notifier
    urls,               \* Notifier.urls, the configured destinations
    wsConnections,      \* the module's Map: per ws URL the cached socket (0: no entry)
    sockets,            \* the WebSockets alive: their url and readyState
    senders,            \* the calls of sendEventToServer in flight, and what they did
    sendCalls,          \* number of calls of sendEventToServer so far
    crashed             \* the process died of an unhandled 'error' event

orchVars == <<statusChanges, browser, page, browserOpen, joinProcedure,
              jpStatusChanges, captionsProcedure, meetingUrlIsUrl, botId, notifierUrls, navigations,
              logClosed, launchPc, launchResult, launchRejection,
              launchCalls, stepRuns, stepFailure, base, closePc, closing,
              closeResult, closeRejection, shutdownCalls, closeInCall, closeBase>>

clockVars == <<now, backSteps>>

notifierVars == <<urls, wsConnections, sockets, senders, sendCalls, crashed>>

joinVars == <<jpPc, jpCalls, jpLast>>

fleetVars == <<containers, requests, bindings>>

runnerVars == <<bot, mainPc, captions, dispatches, observations, queries, lastQuery>>

scanVars == <<scan>>
logVars == <<logs>>
configVars == <<config>>

vars == <<clockVars, orchVars, notifierVars, joinVars, fleetVars, runnerVars, scanVars, logVars, configVars>>

\* What no step of the Orchestrator touches.
aroundVars == <<fleetVars, joinVars, notifierVars, clockVars, runnerVars, scanVars, logVars, configVars>>

\* ------------------------------------------------------------ status history
OrchestratorStatus == {"unknown", "initializing", "launching", "joining",
                       "in_waiting_room", "in_call_not_recording", "call_ended",
                       "done", "fatal"}
JoinProcedureStatus == {"unknown", "initializing", "joining", "in_waiting_room",
                        "joined", "fatal"}

StatusChange(status, subCode, message, t) ==
    [status |-> status, subCode |-> subCode, message |-> message, createdAt |-> t]

\* Array.prototype.sort with the comparator a.createdAt - b.createdAt: a stable
\* sort (insertion of each element after the elements that are not later).
RECURSIVE InsertByCreatedAt(_, _)
InsertByCreatedAt(sorted, r) ==
    IF sorted = <<>> THEN <<r>>
    ELSE IF sorted[Len(sorted)].createdAt - r.createdAt <= 0
         THEN Append(sorted, r)
         ELSE Append(InsertByCreatedAt(SubSeq(sorted, 1, Len(sorted) - 1), r),
                     sorted[Len(sorted)])

RECURSIVE SortByCreatedAt(_)
SortByCreatedAt(s) ==
    IF s = <<>> THEN <<>>
    ELSE InsertByCreatedAt(SortByCreatedAt(SubSeq(s, 1, Len(s) - 1)), s[Len(s)])

\* An _addStatusChange that appends and does not sort.
OrchestratorAddStatusChangeUnsorted(h, status, subCode, message, t) ==
    Append(h, StatusChange(status, subCode, message, t))

\* Orchestrator._addStatusChange: append, stamp with the clock reading t, re-sort.
OrchestratorAddStatusChange(h, status, subCode, message, t) ==
    SortByCreatedAt(Append(h, StatusChange(status, subCode, message, t)))

\* An _addStatusChange that keeps the new record alone.
JoinProcedureSetStatus(h, status, subCode, message, t) ==
    <<StatusChange(status, subCode, message, t)>>

\* JoinProcedure._addStatusChange: the same code on the JoinProcedure's state.
JoinProcedureAddStatusChange(h, status, subCode, message, t) ==
    SortByCreatedAt(Append(h, StatusChange(status, subCode, message, t)))

LastStatus(h) == h[Len(h)].status

Count(h, status) == Cardinality({i \in 1 .. Len(h) : h[i].status = status})

\* The done records of the phases of launch() (the one of _close has a message).
PhaseDone(h) == Cardinality({i \in 1 .. Len(h) : h[i].status = "done" /\ h[i].message = "null"})

\* What launch() remembers of the history it was called on, to tell its own
\* records from earlier ones.
Counts(h) == [launching |-> Count(h, "launching"),
              joining |-> Count(h, "joining"),
              in_call_not_recording |-> Count(h, "in_call_not_recording"),
              done |-> PhaseDone(h),
              fatal |-> Count(h, "fatal")]

\* ------------------------------------------------------------ JoinProcedure
\* new JoinProcedure({page, botId}): the constructor's first record.
NewJoinProcedure(t) == <<StatusChange("initializing", "null", "null", t)>>

\* isInMeetingLobby, the lobby text became visible within the wait: the status
\* is added unless the last record already has it.
IsInMeetingLobbyTrue(jh, t) ==
    IF LastStatus(jh) # "in_waiting_room"
    THEN JoinProcedureAddStatusChange(jh, "in_waiting_room", "null",
             "Bot is in meeting lobby, waiting for host to let the bot in.", t)
    ELSE jh

\* An isInMeeting that returns true without recording the status.
IsInMeetingTrueUnrecorded(jh, t) == jh

\* isInMeeting, the hang-up button appeared within the wait.
IsInMeetingTrue(jh, t) ==
    IF LastStatus(jh) # "joined"
    THEN JoinProcedureAddStatusChange(jh, "joined", "null", "Bot is in meeting.", t)
    ELSE jh

\* A catch block that classifies the failure.
JoinProcedureFatalClassified(jh, t) ==
    JoinProcedureAddStatusChange(jh, "fatal", "unknown_page", "null", t)

\* The catch blocks of startMeetingLauncherFlow, joinMeetingLobbyFlow and
\* leaveMeetingFlow: a fatal record without subCode, then the error is rethrown.
JoinProcedureFatal(jh, t) ==
    JoinProcedureAddStatusChange(jh, "fatal", "null", "null", t)

\* A startMeetingLauncherFlow that throws without a record of its own.
UnresolvableLaunchUrlUnrecorded(jh, t) ==
    JoinProcedureAddStatusChange(jh, "fatal", "resolve_redirect_error", "null", t)

\* _resolveLaunchUrlWithoutDialog failed and returned null, and
\* startMeetingLauncherFlow then gave up: two fatal records.
UnresolvableLaunchUrl(jh, t) ==
    JoinProcedureAddStatusChange(
        JoinProcedureAddStatusChange(jh, "fatal", "resolve_redirect_error", "null", t),
        "fatal", "unresolvable_launch_url",
        "Unable to resolve launch URL from meeting URL", t)

\* ------------------------------------------------------------------ launch()
LaunchSteps == {"chromium_launch", "new_page", "resolve_url", "goto",
                "continue_button", "name_input", "join_now", "lobby_check",
                "in_call_check", "enable_captions", "subscribe_captions"}

NoRuns == [s \in LaunchSteps |-> 0]

\* A page can be driven only while its browser is running.
Usable(p) == p # 0 /\ p \in browserOpen

\* The continuation of launch() starts the step `next` and awaits it.
StartStep(next) ==
    /\ launchPc' = next
    /\ stepRuns' = [stepRuns EXCEPT ![next] = @ + 1]
    /\ UNCHANGED <<launchResult, launchRejection, stepFailure>>

\* A catch block that records fatal and swallows the error: launch() resolves.
LaunchCatchSwallows(h, error) ==
    /\ statusChanges' = OrchestratorAddStatusChange(h, "fatal", "null", "Bot failed to launch.", now)
    /\ launchPc' = "idle"
    /\ launchResult' = "resolved"
    /\ launchRejection' = "none"
    /\ UNCHANGED stepRuns

\* launch()'s catch block: a fatal record is added to the history h the failed
\* step left, and the caught error is rethrown: launch() rejects with it.
LaunchCatch(h, error) ==
    /\ statusChanges' = OrchestratorAddStatusChange(h, "fatal", "null", "Bot failed to launch.", now)
    /\ launchPc' = "idle"
    /\ launchResult' = "rejected"
    /\ launchRejection' = error
    /\ UNCHANGED stepRuns

\* An awaited step of launch() rejected with `error`, leaving the history h.
StepThrows(h, error) ==
    /\ stepFailure' = error
    /\ LaunchCatch(h, error)

OrchInit ==
    /\ now \in Clock
    /\ backSteps = 0
    /\ statusChanges = <<StatusChange("initializing", "null", "null", now)>>
    /\ browser = 0
    /\ page = 0
    /\ browserOpen = {}
    /\ joinProcedure = 0
    /\ jpStatusChanges = <<>>
    /\ captionsProcedure = 0
    /\ meetingUrlIsUrl \in BOOLEAN
    /\ botId = "123e4567-e89b-12d3-a456-426614174000"
    /\ notifierUrls \in {<<>>, <<"ws://a">>}
    /\ navigations = 0
    /\ logClosed = FALSE
    /\ launchPc = "idle"
    /\ launchResult = "none"
    /\ launchRejection = "none"
    /\ launchCalls = 0
    /\ stepRuns = NoRuns
    /\ stepFailure = "none"
    /\ base = Counts(statusChanges)
    /\ closePc = "idle"
    /\ closing = 0
    /\ closeResult = "none"
    /\ closeRejection = "none"
    /\ shutdownCalls = 0
    /\ closeInCall = "none"
    /\ closeBase = 0

closeVars == <<closePc, closing, closeResult, closeRejection, shutdownCalls, logClosed,
               closeInCall, closeBase>>

\* launch() is called: it runs up to its first await, chromium.launch().
LaunchCall ==
    /\ launchPc = "idle"
    /\ launchCalls + shutdownCalls < MaxCalls
    /\ launchCalls' = launchCalls + 1
    /\ launchPc' = "chromium_launch"
    /\ stepRuns' = [NoRuns EXCEPT !["chromium_launch"] = 1]
    /\ stepFailure' = "none"
    /\ launchResult' = "pending"
    /\ launchRejection' = "none"
    /\ base' = Counts(statusChanges)
    /\ UNCHANGED <<aroundVars, statusChanges, browser, page, browserOpen, joinProcedure,
                   jpStatusChanges, captionsProcedure, meetingUrlIsUrl, botId, notifierUrls,
                   navigations, closeVars>>

\* _initializeBrowser: chromium.launch() settles.  Its catch block records
\* fatal and rethrows.
ChromiumLaunch ==
    /\ launchPc = "chromium_launch"
    /\ \/ /\ browser' = launchCalls
          /\ browserOpen' = browserOpen \cup {launchCalls}
          /\ StartStep("new_page")
          /\ UNCHANGED statusChanges
       \/ /\ StepThrows(OrchestratorAddStatusChange(statusChanges, "fatal", "null", "null", now),
                           "browser_launch_error")
          /\ UNCHANGED <<browser, browserOpen>>
    /\ UNCHANGED <<aroundVars, page, joinProcedure, jpStatusChanges, captionsProcedure,
                   meetingUrlIsUrl, botId, notifierUrls, navigations, launchCalls, base, closeVars>>

\* The synchronous start of _joinMeeting and of startMeetingLauncherFlow, up to
\* the fetch in _resolveLaunchUrlWithoutDialog.  h is the history so far and p
\* the page.  A meetingUrl that is no URL fails the zod parse before anything
\* is recorded by the JoinProcedure.
JoinMeeting(h, p) ==
    LET joining == OrchestratorAddStatusChange(h, "joining", "null", "null", now) IN
        /\ IF joinProcedure = 0
           THEN /\ joinProcedure' = p
                /\ jpStatusChanges' = NewJoinProcedure(now)
           ELSE UNCHANGED <<joinProcedure, jpStatusChanges>>
        /\ IF meetingUrlIsUrl
           THEN /\ statusChanges' = joining
                /\ StartStep("resolve_url")
           ELSE StepThrows(joining, "zod_error")

\* _initializeBrowser: browser.newContext() and context.newPage() settle; on
\* success `launching` is recorded and launch() goes on into _joinMeeting.
NewPage ==
    /\ launchPc = "new_page"
    /\ \/ /\ browser \in browserOpen
          /\ page' = browser
          /\ JoinMeeting(
                    OrchestratorAddStatusChange(statusChanges, "launching", "null", "null", now),
                    browser)
       \/ /\ StepThrows(OrchestratorAddStatusChange(statusChanges, "fatal", "null", "null", now),
                           "new_page_error")
          /\ UNCHANGED <<page, joinProcedure, jpStatusChanges>>
    /\ UNCHANGED <<aroundVars, browser, browserOpen, captionsProcedure, meetingUrlIsUrl, botId, notifierUrls,
                   navigations, launchCalls, base, closeVars>>

\* startMeetingLauncherFlow: the fetch of the meeting URL settles.  Resolved:
\* page.goto(launchUrl) is called.  Failed: null comes back, two fatal records.
ResolveUrl ==
    /\ launchPc = "resolve_url"
    /\ \/ /\ navigations' = navigations + 1
          /\ StartStep("goto")
          /\ UNCHANGED <<statusChanges, jpStatusChanges>>
       \/ /\ jpStatusChanges' = UnresolvableLaunchUrl(jpStatusChanges, now)
          /\ StepThrows(statusChanges, "unresolvable_launch_url_error")
          /\ UNCHANGED navigations
    /\ UNCHANGED <<aroundVars, browser, page, browserOpen, joinProcedure, captionsProcedure,
                   meetingUrlIsUrl, botId, notifierUrls, launchCalls, base, closeVars>>

\* A required step of the JoinProcedure failed inside launch(): the
\* JoinProcedure records fatal and rethrows to launch().
RequiredStepFails(error) ==
    /\ jpStatusChanges' = JoinProcedureFatal(jpStatusChanges, now)
    /\ StepThrows(statusChanges, error)

\* startMeetingLauncherFlow: page.goto settles.
Goto ==
    /\ launchPc = "goto"
    /\ \/ /\ Usable(joinProcedure)
          /\ StartStep("continue_button")
          /\ UNCHANGED <<statusChanges, jpStatusChanges>>
       \/ RequiredStepFails("goto_error")
    /\ UNCHANGED <<aroundVars, browser, page, browserOpen, joinProcedure, captionsProcedure,
                   meetingUrlIsUrl, botId, notifierUrls, navigations, launchCalls, base, closeVars>>

\* startMeetingLauncherFlow: the wait for and the click on "Continue on this
\* browser" settle; on success joinMeetingLobbyFlow starts and records joining.
ContinueButton ==
    /\ launchPc = "continue_button"
    /\ \/ /\ Usable(joinProcedure)
          /\ jpStatusChanges' = JoinProcedureAddStatusChange(jpStatusChanges, "joining",
                                       "null", "Starting to join meeting lobby...", now)
          /\ StartStep("name_input")
          /\ UNCHANGED statusChanges
       \/ RequiredStepFails("continue_button_error")
    /\ UNCHANGED <<aroundVars, browser, page, browserOpen, joinProcedure, captionsProcedure,
                   meetingUrlIsUrl, botId, notifierUrls, navigations, launchCalls, base, closeVars>>

\* joinMeetingLobbyFlow: the wait for the name field and the fill settle.
NameInput ==
    /\ launchPc = "name_input"
    /\ \/ /\ Usable(joinProcedure)
          /\ StartStep("join_now")
          /\ UNCHANGED <<statusChanges, jpStatusChanges>>
       \/ RequiredStepFails("name_input_error")
    /\ UNCHANGED <<aroundVars, browser, page, browserOpen, joinProcedure, captionsProcedure,
                   meetingUrlIsUrl, botId, notifierUrls, navigations, launchCalls, base, closeVars>>

\* joinMeetingLobbyFlow: the wait for and the click on "Join now" settle; on
\* success _joinMeeting calls isInMeetingLobby({waitForSeconds: 10}).
JoinNow ==
    /\ launchPc = "join_now"
    /\ \/ /\ Usable(joinProcedure)
          /\ StartStep("lobby_check")
          /\ UNCHANGED <<statusChanges, jpStatusChanges>>
       \/ RequiredStepFails("join_now_error")
    /\ UNCHANGED <<aroundVars, browser, page, browserOpen, joinProcedure, captionsProcedure,
                   meetingUrlIsUrl, botId, notifierUrls, navigations, launchCalls, base, closeVars>>

\* A lobby check whose negative result fails the join as an unknown page.
LobbyCheckDecides ==
    /\ launchPc = "lobby_check"
    /\ \/ /\ Usable(joinProcedure)
          /\ jpStatusChanges' = IsInMeetingLobbyTrue(jpStatusChanges, now)
          /\ statusChanges' = OrchestratorAddStatusChange(statusChanges, "in_waiting_room",
                                  "null", "Bot entered the meeting lobby.", now)
          /\ StartStep("in_call_check")
       \/ /\ StepThrows(OrchestratorAddStatusChange(statusChanges, "fatal", "unknown_page",
                                                       "Bot is on an unknown page.", now),
                           "unknown_page_error")
          /\ UNCHANGED jpStatusChanges
    /\ UNCHANGED <<aroundVars, browser, page, browserOpen, joinProcedure, captionsProcedure,
                   meetingUrlIsUrl, botId, notifierUrls, navigations, launchCalls, base, closeVars>>

\* isInMeetingLobby settles: true (the lobby text was seen) or false (the wait
\* expired, or the page is gone); then isInMeeting({waitForSeconds: 15}) is called.
LobbyCheck ==
    /\ launchPc = "lobby_check"
    /\ \/ /\ Usable(joinProcedure)
          /\ /\ jpStatusChanges' = IsInMeetingLobbyTrue(jpStatusChanges, now)
                /\ statusChanges' = OrchestratorAddStatusChange(statusChanges, "in_waiting_room",
                                        "null", "Bot entered the meeting lobby.", now)
       \/ UNCHANGED <<statusChanges, jpStatusChanges>>
    /\ StartStep("in_call_check")
    /\ UNCHANGED <<aroundVars, browser, page, browserOpen, joinProcedure, captionsProcedure,
                   meetingUrlIsUrl, botId, notifierUrls, navigations, launchCalls, base, closeVars>>

\* An end of _joinMeeting that records done before in_call_not_recording.
JoinedThenSubscribeDoneFirst ==
    /\ statusChanges' =
          OrchestratorAddStatusChange(
              OrchestratorAddStatusChange(statusChanges, "done", "null", "null", now),
              "in_call_not_recording", "null", "Bot entered the meeting.", now)
    /\ captionsProcedure' = IF captionsProcedure = 0 THEN page ELSE captionsProcedure
    /\ StartStep("enable_captions")

\* The end of _joinMeeting after isInMeeting returned true, and the synchronous
\* start of _subscribeToCaptions up to the await of enableCaptionsFlow().
JoinedThenSubscribe ==
    /\ statusChanges' =
          OrchestratorAddStatusChange(
              OrchestratorAddStatusChange(statusChanges, "in_call_not_recording", "null",
                                          "Bot entered the meeting.", now),
              "done", "null", "null", now)
    /\ captionsProcedure' = IF captionsProcedure = 0 THEN page ELSE captionsProcedure
    /\ StartStep("enable_captions")

\* An in-call check whose negative result is recorded and not thrown: launch()
\* goes on to the captions.
InCallCheckGoesOn ==
    /\ launchPc = "in_call_check"
    /\ \/ /\ Usable(joinProcedure)
          /\ jpStatusChanges' = IsInMeetingTrue(jpStatusChanges, now)
          /\ JoinedThenSubscribe
       \/ /\ statusChanges' = OrchestratorAddStatusChange(statusChanges, "fatal", "unknown_page",
                                    "Bot is on an unknown page.", now)
          /\ captionsProcedure' = IF captionsProcedure = 0 THEN page ELSE captionsProcedure
          /\ StartStep("enable_captions")
          /\ UNCHANGED jpStatusChanges
    /\ UNCHANGED <<aroundVars, browser, page, browserOpen, joinProcedure, meetingUrlIsUrl, botId, notifierUrls,
                   navigations, launchCalls, base, closeVars>>

\* isInMeeting settles inside _joinMeeting.
InCallCheck ==
    /\ launchPc = "in_call_check"
    /\ \/ /\ Usable(joinProcedure)
          /\ jpStatusChanges' = IsInMeetingTrue(jpStatusChanges, now)
          /\ JoinedThenSubscribe
       \/ /\ StepThrows(OrchestratorAddStatusChange(statusChanges, "fatal", "unknown_page",
                                                       "Bot is on an unknown page.", now),
                           "unknown_page_error")
          /\ UNCHANGED <<jpStatusChanges, captionsProcedure>>
    /\ UNCHANGED <<aroundVars, browser, page, browserOpen, joinProcedure, meetingUrlIsUrl, botId, notifierUrls,
                   navigations, launchCalls, base, closeVars>>

\* CaptionsProcedure.enableCaptionsFlow() settles.
EnableCaptions ==
    /\ launchPc = "enable_captions"
    /\ \/ /\ Usable(captionsProcedure)
          /\ StartStep("subscribe_captions")
          /\ UNCHANGED statusChanges
       \/ StepThrows(statusChanges, "enable_captions_error")
    /\ UNCHANGED <<aroundVars, browser, page, browserOpen, joinProcedure, jpStatusChanges,
                   captionsProcedure, meetingUrlIsUrl, botId, notifierUrls, navigations, launchCalls,
                   base, closeVars>>

\* CaptionsProcedure.subscribeToCaptions() settles; on success the caption
\* phase records done and launch() resolves.
SubscribeCaptions ==
    /\ launchPc = "subscribe_captions"
    /\ \/ /\ Usable(captionsProcedure)
          /\ statusChanges' = OrchestratorAddStatusChange(statusChanges, "done", "null", "null", now)
          /\ launchPc' = "idle"
          /\ launchResult' = "resolved"
          /\ UNCHANGED <<launchRejection, stepFailure, stepRuns>>
       \/ StepThrows(statusChanges, "subscribe_captions_error")
    /\ UNCHANGED <<aroundVars, browser, page, browserOpen, joinProcedure, jpStatusChanges,
                   captionsProcedure, meetingUrlIsUrl, botId, notifierUrls, navigations, launchCalls,
                   base, closeVars>>

\* ---------------------------------------------------------------- shutdown()
launchVars == <<launchPc, launchResult, launchRejection, launchCalls, stepRuns,
                stepFailure, base>>

\* shutdown() rejected with `error`.
CloseThrows(error) ==
    /\ closePc' = "idle"
    /\ closeResult' = "rejected"
    /\ closeRejection' = error
    /\ closing' = 0

\* shutdown() is called: _close runs up to its first await.  Without a page or
\* a browser it throws at once; otherwise it makes sure there is a
\* JoinProcedure and calls isInMeeting({waitForSeconds: 10}).
ShutdownCall ==
    /\ closePc = "idle"
    /\ launchCalls + shutdownCalls < MaxCalls
    /\ shutdownCalls' = shutdownCalls + 1
    /\ closeInCall' = "none"
    /\ closeBase' = Count(statusChanges, "call_ended")
    /\ IF page = 0 \/ browser = 0
       THEN /\ CloseThrows("browser_not_launched_error")
            /\ UNCHANGED <<joinProcedure, jpStatusChanges>>
       ELSE /\ closePc' = "close_in_call_check"
            /\ closeResult' = "pending"
            /\ closeRejection' = "none"
            /\ closing' = 0
            /\ IF joinProcedure = 0
               THEN /\ joinProcedure' = page
                    /\ jpStatusChanges' = NewJoinProcedure(now)
               ELSE UNCHANGED <<joinProcedure, jpStatusChanges>>
    /\ UNCHANGED <<aroundVars, statusChanges, browser, page, browserOpen, captionsProcedure,
                   meetingUrlIsUrl, botId, notifierUrls, navigations, logClosed, launchVars>>

\* _close: isInMeeting settles.  True: leaveMeetingFlow() is called.  False:
\* browser.close() is called.
CloseInCallCheck ==
    /\ closePc = "close_in_call_check"
    /\ \/ /\ Usable(joinProcedure)
          /\ jpStatusChanges' = IsInMeetingTrue(jpStatusChanges, now)
          /\ closePc' = "leave_meeting"
          /\ closeInCall' = "yes"
          /\ UNCHANGED closing
       \/ /\ closePc' = "browser_close"
          /\ closeInCall' = "no"
          /\ closing' = browser
          /\ UNCHANGED jpStatusChanges
    /\ UNCHANGED <<aroundVars, statusChanges, browser, page, browserOpen, joinProcedure,
                   captionsProcedure, meetingUrlIsUrl, botId, notifierUrls, navigations, logClosed,
                   closeResult, closeRejection, shutdownCalls, closeBase, launchVars>>

\* A _close that calls browser.close() after the leave flow without recording
\* call_ended.
LeaveMeetingUnrecorded ==
    /\ closePc = "leave_meeting"
    /\ \/ /\ Usable(joinProcedure)
          /\ closePc' = "browser_close"
          /\ closing' = browser
          /\ UNCHANGED <<statusChanges, jpStatusChanges, closeResult, closeRejection>>
       \/ /\ jpStatusChanges' = JoinProcedureFatal(jpStatusChanges, now)
          /\ CloseThrows("leave_meeting_error")
          /\ UNCHANGED statusChanges
    /\ UNCHANGED <<aroundVars, browser, page, browserOpen, joinProcedure, captionsProcedure,
                   meetingUrlIsUrl, botId, notifierUrls, navigations, logClosed, shutdownCalls,
                   closeInCall, closeBase, launchVars>>

\* _close: leaveMeetingFlow settles.  Done: call_ended is recorded and
\* browser.close() is called.  Failed: the JoinProcedure records fatal and the
\* error leaves _close and shutdown().
LeaveMeeting ==
    /\ closePc = "leave_meeting"
    /\ \/ /\ Usable(joinProcedure)
          /\ statusChanges' = OrchestratorAddStatusChange(statusChanges, "call_ended",
                                        "null", "Bot left the meeting.", now)
          /\ closePc' = "browser_close"
          /\ closing' = browser
          /\ UNCHANGED <<jpStatusChanges, closeResult, closeRejection>>
       \/ /\ jpStatusChanges' = JoinProcedureFatal(jpStatusChanges, now)
          /\ CloseThrows("leave_meeting_error")
          /\ UNCHANGED statusChanges
    /\ UNCHANGED <<aroundVars, browser, page, browserOpen, joinProcedure, captionsProcedure,
                   meetingUrlIsUrl, botId, notifierUrls, navigations, logClosed, shutdownCalls,
                   closeInCall, closeBase, launchVars>>

\* _close: browser.close() settles.  Done: done is recorded and the log file is
\* closed.  Failed: the error leaves _close and shutdown().
BrowserClose ==
    /\ closePc = "browser_close"
    /\ \/ /\ browserOpen' = browserOpen \ {closing}
          /\ statusChanges' = OrchestratorAddStatusChange(statusChanges, "done", "null",
                                        "Browser closed", now)
          /\ logClosed' = TRUE
          /\ closePc' = "idle"
          /\ closeResult' = "resolved"
          /\ closing' = 0
          /\ UNCHANGED closeRejection
       \/ /\ CloseThrows("browser_close_error")
          /\ UNCHANGED <<browserOpen, statusChanges, logClosed>>
    /\ UNCHANGED <<aroundVars, browser, page, joinProcedure, jpStatusChanges, captionsProcedure,
                   meetingUrlIsUrl, botId, notifierUrls, navigations, shutdownCalls, closeInCall,
                   closeBase, launchVars>>

\* ------------------------------------------------------------------ Notifier
\* The retry ceiling of _sendWsWithRetry (`retries = 5`) and the base of its
\* backoff, in milliseconds.
DefaultRetries == 5
BaseDelay == 100

Urls == {"ws://a", "wss://b", "http://c", "ftp://d", "not a url"}

\* new URL(url).protocol; the constructor throws a TypeError on a string that is
\* no URL.
Protocol(url) ==
    CASE url = "ws://a" -> "ws:"
      [] url = "wss://b" -> "wss:"
      [] url = "http://c" -> "http:"
      [] url = "ftp://d" -> "ftp:"
      [] OTHER -> "TypeError"

WsUrls == {u \in Urls : Protocol(u) \in {"ws:", "wss:"}}

RECURSIVE SeqsUpTo(_, _)
SeqsUpTo(S, n) ==
    IF n = 0 THEN {<<>>}
    ELSE SeqsUpTo(S, n - 1) \cup
         {Append(q, x) : q \in {r \in SeqsUpTo(S, n - 1) : Len(r) = n - 1}, x \in S}

\* The lists of destinations a Notifier may be constructed with.
UrlLists == SeqsUpTo(Urls, MaxUrls)

\* The calls that may be in flight at a time.  A call takes the lowest slot
\* that is free.
Senders == 1 .. MaxSenders

\* The WebSocket objects that are alive: constructed and not yet closed.  A
\* closed socket is referred to by nothing and is dropped.
Sockets == 1 .. MaxSockets
NoSocket == [url |-> "", readyState |-> "NONE"]
Free(socks) == {s \in Sockets : socks[s].readyState = "NONE"}
LowestFree(socks) == CHOOSE s \in Free(socks) : \A t \in Free(socks) : s <= t

\* What a call did on the destination it is at: _getOrCreateWsConnection calls,
\* WebSockets constructed, backoff delays awaited, ws.send calls, fetch calls,
\* the error of the latest failed attempt and the error _sendWsWithRetry threw.
NoObservation ==
    [attempts |-> 0, created |-> 0, delays |-> <<>>, sends |-> 0, requests |-> 0,
     error |-> "none", thrown |-> "none"]

IdleSender ==
    [pc |-> "idle", idx |-> 0, url |-> "", attempt |-> 0, retries |-> 0, ws |-> 0,
     payloadOk |-> TRUE, direct |-> FALSE, raised |-> FALSE,
     cur |-> NoObservation, tried |-> <<>>]

Active(sd) == sd.pc \notin {"idle", "done"}

NotifierInit ==
    /\ urls \in UrlLists
    /\ wsConnections = [u \in WsUrls |-> 0]
    /\ sockets = [s \in Sockets |-> NoSocket]
    /\ senders = [i \in Senders |-> IdleSender]
    /\ sendCalls = 0
    /\ crashed = FALSE

\* A backoff that grows by a fixed step.
BackoffLinear(attempt) == 2 * attempt * BaseDelay

\* Math.pow(2, attempt) * 100
Backoff(attempt) == (2 ^ attempt) * BaseDelay

\* A call ran up to its next await (or to its end): what it is now, and the
\* sockets there are now.
Ran(sd, socks) == [sd |-> sd, sockets |-> socks, ok |-> TRUE]

\* The model has no room for one more socket.
NoRoom(sd, socks) == [sd |-> sd, sockets |-> socks, ok |-> FALSE]

RECURSIVE Dispatched(_, _, _)

\* A for loop that a failed destination ends.
NextDestinationStopsAtFailure(sd, outcome, cache, socks) ==
    LET done == [url |-> sd.url, outcome |-> outcome, retries |-> sd.retries,
                 attempts |-> sd.cur.attempts, created |-> sd.cur.created,
                 delays |-> sd.cur.delays, sends |-> sd.cur.sends,
                 requests |-> sd.cur.requests, error |-> sd.cur.error,
                 thrown |-> sd.cur.thrown]
        next == [sd EXCEPT !.tried = Append(@, done), !.cur = NoObservation,
                           !.attempt = 0, !.retries = 0, !.ws = 0]
    IN IF sd.direct \/ sd.idx >= Len(urls) \/ outcome \notin {"http_ok", "ws_sent"}
       THEN Ran([next EXCEPT !.pc = "done"], socks)
       ELSE Dispatched([next EXCEPT !.idx = @ + 1], cache, socks)

\* The call is through with the destination it is at, with `outcome`: the for
\* loop of sendEventToServer goes on with the next destination, or ends.  A
\* direct call of _sendWsWithRetry returns to its caller.
NextDestination(sd, outcome, cache, socks) ==
    LET done == [url |-> sd.url, outcome |-> outcome, retries |-> sd.retries,
                 attempts |-> sd.cur.attempts, created |-> sd.cur.created,
                 delays |-> sd.cur.delays, sends |-> sd.cur.sends,
                 requests |-> sd.cur.requests, error |-> sd.cur.error,
                 thrown |-> sd.cur.thrown]
        next == [sd EXCEPT !.tried = Append(@, done), !.cur = NoObservation,
                           !.attempt = 0, !.retries = 0, !.ws = 0]
    IN IF sd.direct \/ sd.idx >= Len(urls)
       THEN Ran([next EXCEPT !.pc = "done"], socks)
       ELSE Dispatched([next EXCEPT !.idx = @ + 1], cache, socks)

\* _sendWsWithRetry rethrows after its final attempt.  The catch block of
\* sendEventToServer logs the error; a direct caller gets it.
WsRaises(sd, error, cache, socks) ==
    NextDestination([sd EXCEPT !.raised = sd.direct, !.cur.thrown = error],
                    "ws_raised", cache, socks)

\* A catch block that allows one attempt more than the ceiling.
AttemptFailedOnceMore(sd, error, cache, socks) ==
    LET attempt == sd.attempt + 1 IN
    IF attempt <= sd.retries
    THEN Ran([sd EXCEPT !.attempt = attempt,
                        !.cur.error = error,
                        !.cur.delays = Append(@, Backoff(attempt)),
                        !.ws = 0,
                        !.pc = "ws_delay"], socks)
    ELSE WsRaises([sd EXCEPT !.attempt = attempt, !.cur.error = error],
                  error, cache, socks)

\* The catch block of _sendWsWithRetry: the attempt failed with `error`.
AttemptFailed(sd, error, cache, socks) ==
    LET attempt == sd.attempt + 1 IN
    IF attempt < sd.retries
    THEN Ran([sd EXCEPT !.attempt = attempt,
                        !.cur.error = error,
                        !.cur.delays = Append(@, Backoff(attempt)),
                        !.ws = 0,
                        !.pc = "ws_delay"], socks)
    ELSE WsRaises([sd EXCEPT !.attempt = attempt, !.cur.error = error],
                  error, cache, socks)

\* _sendWsWithRetry got an open socket: ws.send(JSON.stringify(payload)).  A
\* payload that cannot be serialised throws, and the attempt has failed.
WsSend(sd, cache, socks) ==
    IF sd.payloadOk
    THEN NextDestination([sd EXCEPT !.cur.sends = @ + 1], "ws_sent", cache, socks)
    ELSE AttemptFailed(sd, "send_error", cache, socks)

\* A _getOrCreateWsConnection that never finds the cached socket usable.
CachedNeverOpen(url, cache, socks) == FALSE

\* _getOrCreateWsConnection: the cache holds a socket for url and it is OPEN.
CachedOpen(url, cache, socks) ==
    /\ cache[url] # 0
    /\ socks[cache[url]].readyState = "OPEN"

\* One pass of the while loop of _sendWsWithRetry, up to its await:
\* _getOrCreateWsConnection returns the cached socket if it is OPEN, and the
\* payload is sent on it; otherwise it constructs a WebSocket and the call awaits
\* its 'open' or 'error'.
WsAttempt(sd, cache, socks) ==
    LET at == [sd EXCEPT !.cur.attempts = @ + 1] IN
    IF CachedOpen(sd.url, cache, socks)
    THEN WsSend([at EXCEPT !.ws = cache[sd.url]], cache, socks)
    ELSE IF Free(socks) = {}
    THEN NoRoom(sd, socks)
    ELSE Ran([at EXCEPT !.ws = LowestFree(socks), !.cur.created = @ + 1,
                        !.pc = "ws_connecting"],
             [socks EXCEPT ![LowestFree(socks)] =
                 [url |-> sd.url, readyState |-> "CONNECTING"]])

\* A _sendHttp that repeats a request that did not succeed, once.
HttpSettledRetries(sd, outcome, cache, socks) ==
    IF outcome # "http_ok" /\ sd.cur.requests < 2
    THEN Ran([sd EXCEPT !.cur.requests = @ + 1], socks)
    ELSE NextDestination(sd, outcome, cache, socks)

\* _sendHttp: the fetch settled: a response with or without an ok status, or a
\* network error.  All three are logged at most, and _sendHttp returns.
HttpSettled(sd, outcome, cache, socks) == NextDestination(sd, outcome, cache, socks)

\* _sendHttp up to its await.  JSON.stringify throws on a payload that cannot
\* be serialised, before fetch is called; the catch block logs it.
SendHttp(sd, cache, socks) ==
    IF sd.payloadOk
    THEN Ran([sd EXCEPT !.cur.requests = @ + 1, !.pc = "http_wait"], socks)
    ELSE NextDestination(sd, "http_not_sent", cache, socks)

\* sendEventToServer, the body of the for loop up to its await.
Dispatched(sd, cache, socks) ==
    LET url == urls[sd.idx]
        at == [sd EXCEPT !.url = url]
    IN CASE Protocol(url) = "TypeError" ->
                NextDestination(at, "invalid_url", cache, socks)
         [] Protocol(url) \in {"http:", "https:"} ->
                SendHttp(at, cache, socks)
         [] Protocol(url) \in {"ws:", "wss:"} ->
                WsAttempt([at EXCEPT !.retries = DefaultRetries], cache, socks)
         [] OTHER ->
                NextDestination(at, "unsupported_protocol", cache, socks)

otherVars == <<clockVars, orchVars, joinVars, fleetVars, runnerVars, scanVars, logVars, configVars>>

\* A call starts in slot i.
Starts(i) ==
    /\ ~crashed
    /\ ~Active(senders[i])
    /\ \A j \in Senders : j < i => Active(senders[j])
    /\ sendCalls < MaxSends
    /\ sendCalls' = sendCalls + 1

\* Call i ran to `ran`.
Runs(i, ran) ==
    /\ ran.ok
    /\ senders' = [senders EXCEPT ![i] = ran.sd]
    /\ sockets' = ran.sockets

\* sendEventToServer({payload}) is called.
SendEventToServer(i) ==
    /\ Starts(i)
    /\ \E ok \in BOOLEAN :
          LET sd == [IdleSender EXCEPT !.payloadOk = ok] IN
          Runs(i, IF urls = <<>>
                  THEN Ran([sd EXCEPT !.pc = "done"], sockets)
                  ELSE Dispatched([sd EXCEPT !.idx = 1], wsConnections, sockets))
    /\ UNCHANGED <<urls, wsConnections, crashed, otherVars>>

\* _sendWsWithRetry({url, payload, retries}) is called on its own.
SendWsWithRetry(i) ==
    /\ Starts(i)
    /\ \E ok \in BOOLEAN, url \in WsUrls, retries \in 1 .. DefaultRetries :
          Runs(i, WsAttempt([IdleSender EXCEPT !.payloadOk = ok, !.url = url,
                                               !.retries = retries, !.direct = TRUE],
                            wsConnections, sockets))
    /\ UNCHANGED <<urls, wsConnections, crashed, otherVars>>

\* The fetch of _sendHttp settles.
HttpSettles(i) ==
    /\ ~crashed
    /\ senders[i].pc = "http_wait"
    /\ \E outcome \in {"http_ok", "http_not_ok", "http_error"} :
          Runs(i, HttpSettled(senders[i], outcome, wsConnections, sockets))
    /\ UNCHANGED <<urls, wsConnections, sendCalls, crashed, otherVars>>

\* The delay(backoff) of _sendWsWithRetry elapses, and the loop goes round.
DelayElapses(i) ==
    /\ ~crashed
    /\ senders[i].pc = "ws_delay"
    /\ Runs(i, WsAttempt(senders[i], wsConnections, sockets))
    /\ UNCHANGED <<urls, wsConnections, sendCalls, crashed, otherVars>>

\* The call that awaits the promise of socket s.
Awaiting(s) ==
    CHOOSE i \in Senders : senders[i].pc = "ws_connecting" /\ senders[i].ws = s

\* 'open' on a connecting socket: it is put in the cache, its error listener is
\* removed and the promise resolves; the call that awaits it sends.
SocketOpens(s) ==
    /\ ~crashed
    /\ sockets[s].readyState = "CONNECTING"
    /\ LET cache == [wsConnections EXCEPT ![sockets[s].url] = s]
           socks == [sockets EXCEPT ![s].readyState = "OPEN"]
       IN /\ wsConnections' = cache
          /\ Runs(Awaiting(s), WsSend(senders[Awaiting(s)], cache, socks))
    /\ UNCHANGED <<urls, sendCalls, crashed, otherVars>>

\* 'error' on a connecting socket, followed at once by its 'close': onError
\* deletes the cache entry of the URL, closes the socket and rejects the
\* promise; the close listener deletes the entry of the URL again.
SocketFails(s) ==
    /\ ~crashed
    /\ sockets[s].readyState = "CONNECTING"
    /\ LET cache == [wsConnections EXCEPT ![sockets[s].url] = 0]
           socks == [sockets EXCEPT ![s] = NoSocket]
       IN /\ wsConnections' = cache
          /\ Runs(Awaiting(s), AttemptFailed(senders[Awaiting(s)], "connect_error",
                                              cache, socks))
    /\ UNCHANGED <<urls, sendCalls, crashed, otherVars>>

\* An open socket starts closing (a close frame, or the connection is lost):
\* its readyState is CLOSING until 'close' is emitted.
SocketClosing(s) ==
    /\ ~crashed
    /\ sockets[s].readyState = "OPEN"
    /\ sockets' = [sockets EXCEPT ![s].readyState = "CLOSING"]
    /\ UNCHANGED <<urls, wsConnections, senders, sendCalls, crashed, otherVars>>

\* 'close' on a socket that was open: the close listener deletes the cache
\* entry of the socket's URL.
SocketClosed(s) ==
    /\ ~crashed
    /\ sockets[s].readyState = "CLOSING"
    /\ sockets' = [sockets EXCEPT ![s] = NoSocket]
    /\ wsConnections' = [wsConnections EXCEPT ![sockets[s].url] = 0]
    /\ UNCHANGED <<urls, senders, sendCalls, crashed, otherVars>>

\* 'error' on an open socket.  The 'open' listener removed the only error
\* listener, and an 'error' event without a listener is thrown by the emitter:
\* an uncaught exception, which ends the process.  No listener of the Notifier
\* runs; the cache dies with the process as it was, and the calls in flight
\* and the other sockets die with it.
SocketErrorsWhenOpen(s) ==
    /\ ~crashed
    /\ sockets[s].readyState = "OPEN"
    /\ crashed' = TRUE
    /\ sockets' = [t \in Sockets |-> IF t = s THEN sockets[s] ELSE NoSocket]
    /\ wsConnections' = [u \in WsUrls |-> IF wsConnections[u] = s THEN s ELSE 0]
    /\ senders' = [i \in Senders |-> IdleSender]
    /\ UNCHANGED <<urls, sendCalls, otherVars>>

\* ------------------------------------------------------------------ the clock
\* Time passes.
ClockTick ==
    /\ now < MaxClock
    /\ now' = now + 1
    /\ UNCHANGED <<backSteps, orchVars, notifierVars, joinVars, fleetVars, runnerVars, scanVars, logVars, configVars>>

\* The wall clock is set back (a time synchronisation step).
ClockStepBack ==
    /\ backSteps < MaxBackSteps
    /\ backSteps' = backSteps + 1
    /\ \E t \in Clock : t < now /\ now' = t
    /\ UNCHANGED <<orchVars, notifierVars, joinVars, fleetVars, runnerVars, scanVars, logVars, configVars>>

\* ------------------------------------------- the JoinProcedure's callers
\* The public methods of one JoinProcedure, called one after the other by any
\* caller (the Orchestrator is one), each with any outcome of what it awaits.

\* The arguments isInMeetingLobby and isInMeeting are called with.
WaitForSeconds == {"undefined", "0", "1", "10", "soon"}

\* z.number().optional().default(1) on waitForSeconds: a number is kept, a
\* missing one becomes 1, anything else raises a ZodError.
ParseWaitForSeconds(w) ==
    CASE w = "undefined" -> [success |-> TRUE, data |-> 1]
      [] w = "0" -> [success |-> TRUE, data |-> 0]
      [] w = "1" -> [success |-> TRUE, data |-> 1]
      [] w = "10" -> [success |-> TRUE, data |-> 10]
      [] OTHER -> [success |-> FALSE, data |-> 0]

\* The timeout, in milliseconds, the probe waits for its element.
ProbeTimeout(w) == ParseWaitForSeconds(w).data * 1000

JoinProcedureMethods == {"startMeetingLauncherFlow", "joinMeetingLobbyFlow",
                         "isInMeetingLobby", "isInMeeting", "leaveMeetingFlow"}

Probes == {"isInMeetingLobby", "isInMeeting"}

NoCall == [n |-> 0, op |-> "none", wait |-> "undefined", timeout |-> 0, appeared |-> FALSE,
           result |-> "none"]

Settled(n, op, w, appeared, result) ==
    [n |-> n, op |-> op, wait |-> w, timeout |-> ProbeTimeout(w), appeared |-> appeared,
     result |-> result]

JoinIdle ==
    /\ jpPc = "idle"
    /\ jpCalls = 0
    /\ jpLast = NoCall

\* A probe whose element did not appear and that records the failure.
ProbeFalseRecordsFatal(jh, t) == JoinProcedureFatal(jh, t)

\* The catch block of isInMeetingLobby and of isInMeeting: the wait timed out,
\* the probe logs and returns false; the state is not touched.
ProbeFalse(jh, t) == jh

\* A method of the JoinProcedure can be called.
JpCallable ==
    /\ joinProcedure # 0
    /\ jpPc = "idle"
    /\ jpCalls < MaxJpCalls
    /\ jpCalls' = jpCalls + 1

jpFrame == <<clockVars, notifierVars, fleetVars, runnerVars, scanVars, logVars, configVars, statusChanges, browser, page, browserOpen,
             captionsProcedure, meetingUrlIsUrl, botId, notifierUrls, navigations, launchVars, closeVars>>

\* new JoinProcedure({page, botId}).
JpNew ==
    /\ joinProcedure = 0
    /\ joinProcedure' = 1
    /\ jpStatusChanges' = NewJoinProcedure(now)
    /\ UNCHANGED <<jpFrame, joinVars>>

\* startMeetingLauncherFlow({meetingUrl}): the argument is not a URL (ZodError,
\* before anything else), or the launch URL is not resolved, or a navigation
\* step fails, or all of it succeeds.
JpStartMeetingLauncherFlow ==
    /\ JpCallable
    /\ \E outcome \in {"zod_error", "unresolvable", "step_error", "ok"} :
         /\ jpStatusChanges' =
                CASE outcome = "unresolvable" -> UnresolvableLaunchUrl(jpStatusChanges, now)
                  [] outcome = "step_error" -> JoinProcedureFatal(jpStatusChanges, now)
                  [] OTHER -> jpStatusChanges
         /\ jpLast' = Settled(jpCalls', "startMeetingLauncherFlow", "undefined", FALSE,
                              IF outcome = "ok" THEN "resolved" ELSE "rejected")
    /\ UNCHANGED <<jpFrame, joinProcedure, jpPc>>

\* joinMeetingLobbyFlow is called: it records joining, then awaits the page.
JpJoinMeetingLobbyFlow ==
    /\ JpCallable
    /\ jpStatusChanges' = JoinProcedureAddStatusChange(jpStatusChanges, "joining", "null",
                              "Starting to join meeting lobby...", now)
    /\ jpPc' = "join_lobby"
    /\ UNCHANGED <<jpFrame, joinProcedure, jpLast>>

\* joinMeetingLobbyFlow settles: the page steps succeeded, or one failed.
JpJoinMeetingLobbySettles ==
    /\ jpPc = "join_lobby"
    /\ jpPc' = "idle"
    /\ \/ /\ jpLast' = Settled(jpCalls, "joinMeetingLobbyFlow", "undefined", FALSE, "resolved")
          /\ UNCHANGED jpStatusChanges
       \/ /\ jpLast' = Settled(jpCalls, "joinMeetingLobbyFlow", "undefined", FALSE, "rejected")
          /\ jpStatusChanges' = JoinProcedureFatal(jpStatusChanges, now)
    /\ UNCHANGED <<jpFrame, joinProcedure, jpCalls>>

\* isInMeetingLobby({waitForSeconds}).
JpIsInMeetingLobby ==
    /\ JpCallable
    /\ \E w \in WaitForSeconds, appeared \in BOOLEAN :
         IF ~ParseWaitForSeconds(w).success
         THEN /\ jpLast' = Settled(jpCalls', "isInMeetingLobby", w, FALSE, "rejected")
              /\ UNCHANGED jpStatusChanges
         ELSE IF appeared
         THEN /\ jpLast' = Settled(jpCalls', "isInMeetingLobby", w, TRUE, "true")
              /\ jpStatusChanges' = IsInMeetingLobbyTrue(jpStatusChanges, now)
         ELSE /\ jpLast' = Settled(jpCalls', "isInMeetingLobby", w, FALSE, "false")
              /\ jpStatusChanges' = ProbeFalse(jpStatusChanges, now)
    /\ UNCHANGED <<jpFrame, joinProcedure, jpPc>>

\* isInMeeting({waitForSeconds}).
JpIsInMeeting ==
    /\ JpCallable
    /\ \E w \in WaitForSeconds, appeared \in BOOLEAN :
         IF ~ParseWaitForSeconds(w).success
         THEN /\ jpLast' = Settled(jpCalls', "isInMeeting", w, FALSE, "rejected")
              /\ UNCHANGED jpStatusChanges
         ELSE IF appeared
         THEN /\ jpLast' = Settled(jpCalls', "isInMeeting", w, TRUE, "true")
              /\ jpStatusChanges' = IsInMeetingTrue(jpStatusChanges, now)
         ELSE /\ jpLast' = Settled(jpCalls', "isInMeeting", w, FALSE, "false")
              /\ jpStatusChanges' = ProbeFalse(jpStatusChanges, now)
    /\ UNCHANGED <<jpFrame, joinProcedure, jpPc>>

\* leaveMeetingFlow(): the hang-up button is clicked, or it is not there.
JpLeaveMeetingFlow ==
    /\ JpCallable
    /\ \/ /\ jpLast' = Settled(jpCalls', "leaveMeetingFlow", "undefined", TRUE, "resolved")
          /\ UNCHANGED jpStatusChanges
       \/ /\ jpLast' = Settled(jpCalls', "leaveMeetingFlow", "undefined", FALSE, "rejected")
          /\ jpStatusChanges' = JoinProcedureFatal(jpStatusChanges, now)
    /\ UNCHANGED <<jpFrame, joinProcedure, jpPc>>

\* ------------------------------------------------- the bot launcher server
\* app.post('/api/bot'): a request body is validated, then a container named
\* after the bot is created and started by the Docker daemon.
Requests == 1 .. MaxRequests

\* The bodies of the requests, field by field: what the client sent.
Bodies == [port : {"undefined", "number", "string"},
           meetingUrl : {"undefined", "url", "text"},
           notifierUrls : {"undefined", "array", "object"},
           botId : {"undefined", "uuid", "text"}]

\* The bot identifiers: the uuid the clients send, and the ones
\* crypto.randomUUID() makes for the requests that send none.
GivenUUID == [kind |-> "given", n |-> 0]

RandomUUID(r) == [kind |-> "random", n |-> r]

BotIds == {GivenUUID} \cup {RandomUUID(r) : r \in Requests}

NoBotId == [kind |-> "none", n |-> 0]

\* name: `teams-bot-${botId}`.
ContainerName(id) == [prefix |-> "teams-bot-", botId |-> id]

ContainerNames == {ContainerName(b) : b \in BotIds}

\* A validation that takes any string for a uuid.
SafeParseAnyBotId(body, r) ==
    LET errors == {f \in {"port", "meetingUrl", "notifierUrls"} :
                     \/ f = "port" /\ body.port = "string"
                     \/ f = "meetingUrl" /\ body.meetingUrl # "url"
                     \/ f = "notifierUrls" /\ body.notifierUrls = "object"}
    IN  [success |-> errors = {},
         errors |-> errors,
         botId |-> IF body.botId = "undefined" THEN RandomUUID(r) ELSE GivenUUID]

\* z.object({port, meetingUrl, notifierUrls, botId}).safeParse(req.body): port,
\* notifierUrls and botId may be missing (they have defaults), meetingUrl may
\* not; the errors name the fields that failed.
SafeParse(body, r) ==
    LET errors == {f \in {"port", "meetingUrl", "notifierUrls", "botId"} :
                     \/ f = "port" /\ body.port = "string"
                     \/ f = "meetingUrl" /\ body.meetingUrl # "url"
                     \/ f = "notifierUrls" /\ body.notifierUrls = "object"
                     \/ f = "botId" /\ body.botId = "text"}
    IN  [success |-> errors = {},
         errors |-> errors,
         botId |-> IF body.botId = "undefined" THEN RandomUUID(r) ELSE GivenUUID]

NoBody == [port |-> "undefined", meetingUrl |-> "undefined",
           notifierUrls |-> "undefined", botId |-> "undefined"]

\* The port numbers the clients send.
SuppliedPorts == {4100, 8080}

\* What Math.random() returns, in thousandths.
RandomDraws == {0, 9, 10, 574, 999}

\* Math.floor(Math.random() * 100) + 4100, the port of a request without one.
DefaultPort(random) == ((random * 100) \div 1000) + 4100

Ports == SuppliedPorts \cup {DefaultPort(random) : random \in RandomDraws}

\* The body of the 202 response.
NoAnswer == [botId |-> NoBotId, port |-> 0]

NoRequest == [pc |-> "none", body |-> NoBody, botId |-> NoBotId, status |-> 0,
              error |-> {}, containerName |-> "none", created |-> FALSE,
              port |-> 0, started |-> FALSE, responses |-> 0, answer |-> NoAnswer]

\* Env (PORT, BOT_ID) and HostConfig.PortBindings of a container.
NoBinding == [env |-> [PORT |-> 0, BOT_ID |-> NoBotId], containerPort |-> 0, hostPort |-> 0]

Binding(id, port) ==
    [env |-> [PORT |-> port, BOT_ID |-> id], containerPort |-> port, hostPort |-> port]

FleetIdle ==
    /\ containers = [c \in ContainerNames |-> "absent"]
    /\ requests = [r \in Requests |-> NoRequest]
    /\ bindings = [c \in ContainerNames |-> NoBinding]

\* A daemon that creates a container whatever containers there are.
CreateContainerAnyName(cs, name) == [ok |-> TRUE, containers |-> [cs EXCEPT ![name] = "created"]]

\* docker.createContainer({name, ...}) accepted by the daemon: a container in
\* any state keeps its name, and a name in use is refused.
CreateContainer(cs, name) ==
    IF cs[name] # "absent"
    THEN [ok |-> FALSE, containers |-> cs]
    ELSE [ok |-> TRUE, containers |-> [cs EXCEPT ![name] = "created"]]

fleetFrame == <<clockVars, orchVars, notifierVars, joinVars, runnerVars, scanVars, logVars, configVars>>

\* A catch block that answers as if the container had started.
FailedAnswersAccepted(r, error) ==
    requests' = [requests EXCEPT ![r].pc = "done", ![r].status = 202,
                                 ![r].responses = @ + 1,
                                 ![r].answer = [botId |-> requests[r].botId,
                                                port |-> requests[r].port],
                                 ![r].containerName = ContainerName(requests[r].botId)]

\* The catch block: res.status(500) with the daemon's message.
Failed(r, error) ==
    requests' = [requests EXCEPT ![r].pc = "done", ![r].status = 500,
                                 ![r].responses = @ + 1,
                                 ![r].error = {error}]

\* POST /api/bot arrives: up to the await of docker.createContainer.
PostBot(r) ==
    /\ requests[r].pc = "none"
    /\ \A q \in Requests : q < r => requests[q].pc # "none"
    /\ \E body \in Bodies, supplied \in SuppliedPorts, random \in RandomDraws :
         LET validation == SafeParse(body, r)
             port == IF body.port = "number" THEN supplied ELSE DefaultPort(random)
         IN  IF ~validation.success
             THEN requests' = [requests EXCEPT ![r].pc = "done", ![r].body = body,
                                               ![r].status = 400,
                                               ![r].responses = @ + 1,
                                               ![r].error = validation.errors]
             ELSE requests' = [requests EXCEPT ![r].pc = "create", ![r].body = body,
                                               ![r].botId = validation.botId,
                                               ![r].port = port]
    /\ UNCHANGED <<fleetFrame, containers, bindings>>

\* docker.createContainer settles: the daemon made the container, and
\* container.start() is called; or it refused, or failed.
CreateSettles(r) ==
    /\ requests[r].pc = "create"
    /\ LET made == CreateContainer(containers, ContainerName(requests[r].botId))
       IN  \/ /\ made.ok
              /\ containers' = made.containers
              /\ bindings' = [bindings EXCEPT ![ContainerName(requests[r].botId)] =
                                   Binding(requests[r].botId, requests[r].port)]
              /\ requests' = [requests EXCEPT ![r].pc = "start", ![r].created = TRUE]
           \/ /\ ~made.ok
              /\ Failed(r, "name_in_use")
              /\ UNCHANGED <<containers, bindings>>
           \/ /\ Failed(r, "create_failed")
              /\ UNCHANGED <<containers, bindings>>
    /\ UNCHANGED fleetFrame

\* container.start() settles: the container runs and the request is answered
\* 202; or the start failed (the port is taken, the network is missing).
StartSettles(r) ==
    /\ requests[r].pc = "start"
    /\ LET name == ContainerName(requests[r].botId)
       IN  \/ /\ containers' = [containers EXCEPT ![name] = "running"]
              /\ requests' = [requests EXCEPT ![r].pc = "done", ![r].status = 202,
                                              ![r].started = TRUE,
                                              ![r].responses = @ + 1,
                                              ![r].answer = [botId |-> requests[r].botId,
                                                             port |-> requests[r].port],
                                              ![r].containerName = name]
           \/ /\ Failed(r, "start_failed")
              /\ UNCHANGED containers
    /\ UNCHANGED <<fleetFrame, bindings>>

\* ------------------------------------------------------- the launch script
\* find_free_port and run_teams_bot_standalone of the run script.  A port of
\* 0 is an unset variable or an absent argument.

\* The sets of ports other processes listen on.
Occupations ==
    { {}, {4101, 4102, 4103}, 4101 .. 4199, {4101, 4103, 4199}, {4102}, 4102 .. 4199 }

\* The PORT values of the environment; 0 is unset.
EnvPorts == {0, 4100, 4150}

\* The arguments find_free_port is called with; 0 is absent.
StartArgs == {0, 4101, 4104, 4199}
EndArgs == {0, 4100, 4103, 4104, 4199}

NoScan ==
    [pc |-> "idle", caller |-> "none", inUse |-> {}, supplied |-> 0,
     START_PORT |-> 0, END_PORT |-> 0, CURRENT_PORT |-> 0, checks |-> 0,
     FREE_PORT |-> 0, status |-> 0, PORT |-> 0, published |-> 0]

ScanIdle == scan = NoScan

scanFrame == <<clockVars, orchVars, notifierVars, joinVars, fleetVars, runnerVars, logVars, configVars>>

\* is_port_in_use: some process listens on the port.
IsPortInUse(inUse, port) == port \in inUse

\* A loop that stops before the last port of the range.
ScanContinuesBelow(current, end) == current < end

\* The loop test of find_free_port: [ $CURRENT_PORT -le $END_PORT ].
ScanContinues(current, end) == current <= end

\* ${1:-4101} and ${2:-4199}.
StartPort(arg) == IF arg = 0 THEN 4101 ELSE arg
EndPort(arg) == IF arg = 0 THEN 4199 ELSE arg

\* find_free_port is entered with its two arguments.
EnterFindFreePort(caller, inUse, supplied, a1, a2) ==
    [NoScan EXCEPT !.pc = "scanning", !.caller = caller, !.inUse = inUse,
                   !.supplied = supplied, !.PORT = supplied,
                   !.START_PORT = StartPort(a1), !.END_PORT = EndPort(a2),
                   !.CURRENT_PORT = StartPort(a1)]

\* find_free_port is called on its own.
FindFreePort ==
    /\ scan.pc = "idle"
    /\ \E inUse \in Occupations, a1 \in StartArgs, a2 \in EndArgs :
         scan' = EnterFindFreePort("direct", inUse, 0, a1, a2)
    /\ UNCHANGED scanFrame

\* run_teams_bot_standalone: a PORT of the environment is kept, otherwise the
\* range 4101..4199 is searched.
RunTeamsBotStandalone ==
    /\ scan.pc = "idle"
    /\ \E inUse \in Occupations, port \in EnvPorts :
         scan' = IF port # 0
                 THEN [NoScan EXCEPT !.pc = "env_check", !.caller = "standalone",
                                     !.inUse = inUse, !.supplied = port, !.PORT = port]
                 ELSE EnterFindFreePort("standalone", inUse, 0, 4101, 4199)
    /\ UNCHANGED scanFrame

\* One turn of the loop of find_free_port.  A port not in use is printed and
\* the function returns 0; past the end of the range it returns 1, which ends
\* the script of the standalone launch.
ScanStep ==
    /\ scan.pc = "scanning"
    /\ scan' =
         IF ScanContinues(scan.CURRENT_PORT, scan.END_PORT)
         THEN IF ~IsPortInUse(scan.inUse, scan.CURRENT_PORT)
              THEN [scan EXCEPT !.checks = @ + 1,
                                !.FREE_PORT = scan.CURRENT_PORT,
                                !.status = 0,
                                !.PORT = IF scan.caller = "standalone"
                                         THEN scan.CURRENT_PORT ELSE @,
                                !.pc = IF scan.caller = "standalone"
                                       THEN "env_check" ELSE "returned"]
              ELSE [scan EXCEPT !.checks = @ + 1, !.CURRENT_PORT = @ + 1]
         ELSE [scan EXCEPT !.status = 1,
                           !.pc = IF scan.caller = "standalone"
                                  THEN "exited" ELSE "returned"]
    /\ UNCHANGED scanFrame

\* The check of MEETING_URL and NOTIFIER_URLS, then docker run with the port
\* published and passed as PORT.
DockerRun ==
    /\ scan.pc = "env_check"
    /\ \E configured \in BOOLEAN :
         scan' = IF configured
                 THEN [scan EXCEPT !.pc = "running", !.published = scan.PORT]
                 ELSE [scan EXCEPT !.pc = "exited", !.status = 1]
    /\ UNCHANGED scanFrame

\* --------------------------------------------------------------- the log file
\* FileStreamer and Logger.  Every Logger of a bot constructs a FileStreamer
\* with the streamId `<botId>-logs`; fileStreams maps the streamId to a write
\* stream.  One bot, so one streamId.

\* Who holds a Logger.
Sources == {"orchestrator", "join-procedure", "captions-procedure", "notifier", "bot-runner"}

\* The write streams that may be created, in the order of their creation.
Streams == 1 .. MaxStreams

NoWrite == [n |-> 0, source |-> "none", stream |-> 0, ended |-> FALSE]
NoClose == [n |-> 0, stream |-> 0, held |-> 0, warned |-> FALSE]

\* fileStreams: 0 is no entry.  fileStream: the stream of the FileStreamer of
\* each Logger, 0 before the Logger is constructed.
NoLogs ==
    [fileStreams |-> 0,
     created |-> 0,
     ended |-> {},
     opener |-> [st \in Streams |-> "none"],
     fileStream |-> [src \in Sources |-> 0],
     lastWrite |-> NoWrite,
     lastClose |-> NoClose]

LogIdle == logs = NoLogs

logFrame == <<clockVars, orchVars, notifierVars, joinVars, fleetVars, runnerVars, scanVars,
              configVars>>

\* new FileStreamer({streamId, filePath}) as the Logger calls it (with a file
\* path): the stream of fileStreams if there is one, a new stream otherwise,
\* which is put into fileStreams.
NewFileStreamer(l, src) ==
    IF l.fileStreams # 0
    THEN [l EXCEPT !.fileStream[src] = l.fileStreams]
    ELSE [l EXCEPT !.created = @ + 1,
                   !.fileStreams = l.created + 1,
                   !.opener[l.created + 1] = src,
                   !.fileStream[src] = l.created + 1]

\* FileStreamer.close(): the stream fileStreams holds for the streamId is
\* ended and its entry deleted; without an entry a warning is printed.
FileStreamerClose(l, src) ==
    IF l.fileStreams # 0
    THEN [l EXCEPT !.ended = @ \cup {l.fileStreams},
                   !.fileStreams = 0,
                   !.lastClose = [n |-> l.lastClose.n + 1, stream |-> l.fileStreams,
                                  held |-> l.fileStream[src], warned |-> FALSE]]
    ELSE [l EXCEPT !.lastClose = [n |-> l.lastClose.n + 1, stream |-> 0,
                                  held |-> l.fileStream[src], warned |-> TRUE]]

\* FileStreamer.write(data): this.fileStream.write, whatever state the stream
\* is in.
FileStreamerWrite(l, src) ==
    [l EXCEPT !.lastWrite = [n |-> l.lastWrite.n + 1, source |-> src,
                             stream |-> l.fileStream[src],
                             ended |-> l.fileStream[src] \in l.ended]]

\* new Logger({source, botId}).  main constructs the bot-runner's Logger
\* before the Orchestrator, whose constructor makes its own; the JoinProcedure
\* and the CaptionsProcedure are constructed by launch() and _close, the
\* Notifier by whoever sends events.
NewLogger(src) ==
    /\ logs.fileStream[src] = 0
    /\ src \notin {"orchestrator", "bot-runner"} => logs.fileStream["orchestrator"] # 0
    /\ src = "bot-runner" => logs.fileStream["orchestrator"] = 0
    /\ logs.fileStreams = 0 => logs.created < MaxStreams
    /\ logs' = NewFileStreamer(logs, src)
    /\ UNCHANGED logFrame

\* Logger.info, warn or error: one line is written to the log file.
LoggerLog(src) ==
    /\ logs.fileStream[src] # 0
    /\ logs.lastWrite.n < MaxWrites
    /\ logs' = FileStreamerWrite(logs, src)
    /\ UNCHANGED logFrame

\* The end of Orchestrator._close: this.logger.info('Browser closed'), then
\* this.logger.close().
OrchestratorLoggerClose ==
    /\ logs.fileStream["orchestrator"] # 0
    /\ logs.lastWrite.n < MaxWrites
    /\ logs.lastClose.n < MaxCloses
    /\ logs' = FileStreamerClose(FileStreamerWrite(logs, "orchestrator"), "orchestrator")
    /\ UNCHANGED logFrame

\* ------------------------------------------- from the launcher to the bot
\* The launcher puts the validated request into the Env of the container; the
\* bot reads it back with envSchema.parse(process.env).

\* The strings the clients send as notifier URLs.
NotifierStrings == {"http://a", "ws://b", "http://c/?q=1,2", "ws://d ", "text", ""}

\* The lists of them a request may carry.
NotifierLists == SeqsUpTo(NotifierStrings, MaxNotifiers)

\* String.prototype.split(','): the pieces between the commas.  A string is
\* given by its pieces, so the pieces also stand for the string itself.
SplitByComma(str) ==
    IF str = "http://c/?q=1,2" THEN <<"http://c/?q=1", "2">> ELSE <<str>>

\* Array.prototype.join(','): the string of the elements with commas between
\* them, as its pieces; the empty string for the empty list.
RECURSIVE JoinByComma(_)
JoinByComma(list) ==
    IF list = <<>> THEN <<"">>
    ELSE IF Len(list) = 1 THEN SplitByComma(list[1])
    ELSE SplitByComma(list[1]) \o JoinByComma(Tail(list))

\* String.prototype.trim().
Trim(str) == IF str = "ws://d " THEN "ws://d" ELSE str

\* z.string().url()
IsUrl(str) == str \in {"http://a", "ws://b", "http://c/?q=1,2", "http://c/?q=1", "ws://d"}

\* `PORT=${port}` and z.coerce.number(): the decimal numeral of the number,
\* and the number of the numeral.
Numeral(n) == [digits |-> n]
CoerceNumber(numeral) == numeral.digits

\* The NOTIFIER_URLS of envSchema: a non-empty string is split at the commas
\* and its pieces are trimmed; the empty string gives the default, [].
PreprocessNotifierUrls(pieces) ==
    IF pieces = <<"">> THEN <<>>
    ELSE [i \in 1 .. Len(pieces) |-> Trim(pieces[i])]

\* envSchema.parse(process.env)
EnvSchemaParse(env) ==
    LET list == PreprocessNotifierUrls(env.NOTIFIER_URLS) IN
    [success |-> /\ env.MEETING_URL = "url"
                 /\ env.BOT_ID # "text"
                 /\ \A i \in 1 .. Len(list) : IsUrl(list[i]),
     PORT |-> CoerceNumber(env.PORT),
     notifierUrls |-> list]

NoEnv == [PORT |-> Numeral(0), MEETING_URL |-> "undefined", NOTIFIER_URLS |-> <<"">>,
          BOT_ID |-> "undefined"]

NoConfig ==
    [pc |-> "idle", body |-> NoBody, notifierUrls |-> <<>>, port |-> 0, status |-> 0,
     env |-> NoEnv,
     parsed |-> [success |-> FALSE, PORT |-> 0, notifierUrls |-> <<>>]]

ConfigIdle == config = NoConfig

configFrame == <<clockVars, orchVars, notifierVars, joinVars, fleetVars, runnerVars, scanVars,
                 logVars>>

\* POST /api/bot as far as the configuration goes: the body is validated, the
\* Env is made of the validated data and the container is created and started
\* with it (202) or not (500).
PostBotEnv ==
    /\ config.pc = "idle"
    /\ \E body \in Bodies, list \in NotifierLists, supplied \in SuppliedPorts,
          random \in RandomDraws, started \in BOOLEAN :
          LET validation == SafeParse(body, 1)
              port == IF body.port = "undefined" THEN DefaultPort(random) ELSE supplied
              urls0 == IF body.notifierUrls = "undefined" THEN <<>> ELSE list
          IN  /\ body.port # "undefined" => random = 0
              /\ body.port = "undefined" => supplied = 4100
              /\ body.notifierUrls # "array" => list = <<>>
              /\ config' =
                   IF ~validation.success
                   THEN [NoConfig EXCEPT !.pc = "refused", !.body = body, !.status = 400]
                   ELSE [NoConfig EXCEPT
                           !.pc = IF started THEN "deployed" ELSE "failed",
                           !.body = body,
                           !.notifierUrls = urls0,
                           !.port = port,
                           !.status = IF started THEN 202 ELSE 500,
                           !.env = [PORT |-> Numeral(port),
                                    MEETING_URL |-> body.meetingUrl,
                                    NOTIFIER_URLS |-> JoinByComma(urls0),
                                    BOT_ID |-> IF body.botId = "undefined"
                                               THEN "uuid" ELSE body.botId]]
    /\ UNCHANGED configFrame

\* The bot process starts in the container: envSchema.parse(process.env).
BotReadsEnv ==
    /\ config.pc = "deployed"
    /\ config' = [config EXCEPT !.pc = "parsed", !.parsed = EnvSchemaParse(config.env)]
    /\ UNCHANGED configFrame

\* ---------------------------------------------------------- the bot process
\* main: the Orchestrator is constructed, launch() is called and not awaited,
\* and the server with GET /captions starts to listen.

\* The finalized texts the caption surface shows.
Lines == {"hello", "bye"}

NoQuery == [n |-> 0, via |-> "none", status |-> 0, thrown |-> "none", captions |-> <<>>]

RunnerIdle ==
    /\ bot = 0
    /\ mainPc = "start"
    /\ captions = <<>>
    /\ dispatches = [l \in Lines |-> 0]
    /\ observations = <<>>
    /\ queries = 0
    /\ lastQuery = NoQuery

runnerFrame == <<clockVars, orchVars, notifierVars, joinVars, fleetVars, scanVars, logVars, configVars>>

\* A getCaptions that reads the captions without looking for the procedure.
GetCaptionsUnguarded(cp, caps) ==
    IF cp = 0 THEN [thrown |-> "type_error", value |-> <<>>]
    ELSE [thrown |-> "none", value |-> caps]

\* Orchestrator.getCaptions(): throws without a captions procedure, returns
\* its state.captions otherwise.
GetCaptions(cp, caps) ==
    IF cp = 0 THEN [thrown |-> "precondition_error", value |-> <<>>]
    ELSE [thrown |-> "none", value |-> caps]

\* main up to the construction of the Orchestrator; an error at startup ends
\* the process (process.exit(1)).
RunnerMain ==
    /\ mainPc = "start"
    /\ \/ bot' = 1 /\ mainPc' = "constructed"
       \/ bot' = bot /\ mainPc' = "exited"
    /\ UNCHANGED <<runnerFrame, captions, dispatches, observations, queries, lastQuery>>

\* bot.launch(), not awaited.
RunnerLaunch ==
    /\ mainPc = "constructed"
    /\ launchCalls = 0
    /\ LaunchCall

\* app.listen(PORT): requests are answered from now on.
Listen ==
    /\ mainPc = "constructed"
    /\ launchCalls = 1
    /\ mainPc' = "serving"
    /\ UNCHANGED <<runnerFrame, bot, captions, dispatches, observations, queries, lastQuery>>

\* launch() rejected and nothing handles the rejection: the runtime may end
\* the process.
UnhandledRejection ==
    /\ mainPc = "serving"
    /\ launchResult = "rejected"
    /\ mainPc' = "exited"
    /\ UNCHANGED <<runnerFrame, bot, captions, dispatches, observations, queries, lastQuery>>

\* A step of launch() in the running process.  main runs on to app.listen
\* before anything launch() awaits can settle.
RunnerLaunchStep ==
    /\ mainPc = "serving"
    /\ \/ ChromiumLaunch
       \/ NewPage
       \/ ResolveUrl
       \/ Goto
       \/ ContinueButton
       \/ NameInput
       \/ JoinNow
       \/ LobbyCheck
       \/ InCallCheck
       \/ EnableCaptions
       \/ SubscribeCaptions

\* Orchestrator.getCaptions() is called.
GetCaptionsCall ==
    /\ mainPc # "exited"
    /\ queries < MaxQueries
    /\ queries' = queries + 1
    /\ LET got == GetCaptions(captionsProcedure, captions)
       IN  lastQuery' = [n |-> queries', via |-> "getCaptions", status |-> 0,
                         thrown |-> got.thrown, captions |-> got.value]
    /\ UNCHANGED <<runnerFrame, bot, mainPc, captions, dispatches, observations>>

\* GET /captions: 503 without a bot, 500 when getCaptions throws, the captions
\* otherwise.
CaptionsRequest ==
    /\ mainPc = "serving"
    /\ queries < MaxQueries
    /\ queries' = queries + 1
    /\ LET got == GetCaptions(captionsProcedure, captions)
       IN  lastQuery' =
              IF bot = 0
              THEN [n |-> queries', via |-> "GET /captions", status |-> 503,
                    thrown |-> "none", captions |-> <<>>]
              ELSE IF got.thrown # "none"
              THEN [n |-> queries', via |-> "GET /captions", status |-> 500,
                    thrown |-> got.thrown, captions |-> <<>>]
              ELSE [n |-> queries', via |-> "GET /captions", status |-> 200,
                    thrown |-> "none", captions |-> got.value]
    /\ UNCHANGED <<runnerFrame, bot, mainPc, captions, dispatches, observations>>

\* --------------------------------------------------------- caption capture
\* The texts of the transcript.
Transcript(caps) == {caps[i] : i \in 1 .. Len(caps)}

\* A capture loop that emits every finalized line it observes.
CaptureEmitsAgain(caps, line, finalized) == finalized

\* The capture loop emits a line that is finalized and was not emitted before.
CaptureEmits(caps, line, finalized) == finalized /\ line \notin Transcript(caps)

\* The capture loop observes the caption surface: a line, finalized or still
\* changing.  A line it emits goes to the Notifier and into the transcript.
Observe ==
    /\ mainPc # "exited"
    /\ launchResult = "resolved"
    /\ Usable(captionsProcedure)
    /\ Len(observations) < MaxObservations
    /\ \E line \in Lines, finalized \in BOOLEAN :
         /\ observations' = Append(observations, [line |-> line, finalized |-> finalized])
         /\ IF CaptureEmits(captions, line, finalized)
            THEN /\ captions' = Append(captions, line)
                 /\ dispatches' = [dispatches EXCEPT ![line] = @ + 1]
            ELSE UNCHANGED <<captions, dispatches>>
    /\ UNCHANGED <<runnerFrame, bot, mainPc, queries, lastQuery>>

\* --------------------------------------------------------------- the bot
\* No Notifier is in use.
NotifierIdle == NotifierInit /\ urls = <<>>

\* The Orchestrator is constructed and not used.
OrchIdle == OrchInit /\ now = 0 /\ meetingUrlIsUrl /\ notifierUrls = <<>>

Init == OrchInit /\ NotifierIdle /\ JoinIdle /\ FleetIdle /\ RunnerIdle /\ ScanIdle /\ LogIdle /\ ConfigIdle

Next ==
    \/ ClockTick
    \/ ClockStepBack
    \/ LaunchCall
    \/ ChromiumLaunch
    \/ NewPage
    \/ ResolveUrl
    \/ Goto
    \/ ContinueButton
    \/ NameInput
    \/ JoinNow
    \/ LobbyCheck
    \/ InCallCheck
    \/ EnableCaptions
    \/ SubscribeCaptions
    \/ ShutdownCall
    \/ CloseInCallCheck
    \/ LeaveMeeting
    \/ BrowserClose

Spec == Init /\ [][Next]_vars

\* ------------------------------------------------------- the Notifier alone
\* The environment of the Notifier: what its sockets do.
SocketEvent ==
    \E s \in Sockets :
        \/ SocketOpens(s)
        \/ SocketFails(s)
        \/ SocketClosing(s)
        \/ SocketClosed(s)
        \/ SocketErrorsWhenOpen(s)

\* Calls of sendEventToServer, one after the other.
NotifierNext ==
    \/ SendEventToServer(1)
    \/ HttpSettles(1)
    \/ DelayElapses(1)
    \/ SocketEvent

\* A Notifier with any list of destinations, not yet called.
NotifierAlone == OrchIdle /\ NotifierInit /\ JoinIdle /\ FleetIdle /\ RunnerIdle /\ ScanIdle /\ LogIdle /\ ConfigIdle

NotifierSpec == NotifierAlone /\ [][NotifierNext]_vars

\* Calls of _sendWsWithRetry with a retry ceiling, one after the other.
RetryNext ==
    \/ SendWsWithRetry(1)
    \/ DelayElapses(1)
    \/ SocketEvent

RetryInit == OrchIdle /\ NotifierIdle /\ JoinIdle /\ FleetIdle /\ RunnerIdle /\ ScanIdle /\ LogIdle /\ ConfigIdle

RetrySpec == RetryInit /\ [][RetryNext]_vars

\* Calls of sendEventToServer that may overlap, of a Notifier with one
\* destination at most.
ConcurrentNext ==
    \/ \E i \in Senders : SendEventToServer(i)
    \/ \E i \in Senders : HttpSettles(i)
    \/ \E i \in Senders : DelayElapses(i)
    \/ SocketEvent

ConcurrentInit == OrchIdle /\ NotifierInit /\ Len(urls) <= 1 /\ JoinIdle /\ FleetIdle /\ RunnerIdle /\ ScanIdle /\ LogIdle /\ ConfigIdle

ConcurrentSpec == ConcurrentInit /\ [][ConcurrentNext]_vars

\* The public methods of one JoinProcedure, called in any order.
JoinNext ==
    \/ ClockTick
    \/ ClockStepBack
    \/ JpNew
    \/ JpStartMeetingLauncherFlow
    \/ JpJoinMeetingLobbyFlow
    \/ JpJoinMeetingLobbySettles
    \/ JpIsInMeetingLobby
    \/ JpIsInMeeting
    \/ JpLeaveMeetingFlow

JoinInit == OrchIdle /\ NotifierIdle /\ JoinIdle /\ FleetIdle /\ RunnerIdle /\ ScanIdle /\ LogIdle /\ ConfigIdle

JoinSpec == JoinInit /\ [][JoinNext]_vars

\* The bot launcher server answering requests, one or several at a time.
FleetNext ==
    \E r \in Requests :
        \/ PostBot(r)
        \/ CreateSettles(r)
        \/ StartSettles(r)

FleetInit == OrchIdle /\ NotifierIdle /\ JoinIdle /\ FleetIdle /\ RunnerIdle /\ ScanIdle /\ LogIdle /\ ConfigIdle

FleetSpec == FleetInit /\ [][FleetNext]_vars

\* The bot process: main, launch() in the background, queries and captions.
RunnerNext ==
    \/ RunnerMain
    \/ RunnerLaunch
    \/ Listen
    \/ UnhandledRejection
    \/ RunnerLaunchStep
    \/ GetCaptionsCall
    \/ CaptionsRequest
    \/ Observe

RunnerInit == OrchIdle /\ NotifierIdle /\ JoinIdle /\ FleetIdle /\ RunnerIdle /\ ScanIdle /\ LogIdle /\ ConfigIdle

RunnerSpec == RunnerInit /\ [][RunnerNext]_vars

\* The launch script.
ScanNext ==
    \/ FindFreePort
    \/ RunTeamsBotStandalone
    \/ ScanStep
    \/ DockerRun

ScanInit == OrchIdle /\ NotifierIdle /\ JoinIdle /\ FleetIdle /\ RunnerIdle /\ ScanIdle /\ LogIdle /\ ConfigIdle

ScanSpec == ScanInit /\ [][ScanNext]_vars

\* The Loggers of one bot and its log file.
LogNext ==
    \/ \E src \in Sources : NewLogger(src)
    \/ \E src \in Sources : LoggerLog(src)
    \/ OrchestratorLoggerClose

LogInit == OrchIdle /\ NotifierIdle /\ JoinIdle /\ FleetIdle /\ RunnerIdle /\ ScanIdle /\ LogIdle /\ ConfigIdle

LogSpec == LogInit /\ [][LogNext]_vars

\* A deployment request and the start of the bot it deploys.
ConfigNext ==
    \/ PostBotEnv
    \/ BotReadsEnv

ConfigInit == OrchIdle /\ NotifierIdle /\ JoinIdle /\ FleetIdle /\ RunnerIdle /\ ScanIdle /\ LogIdle /\ ConfigIdle

ConfigSpec == ConfigInit /\ [][ConfigNext]_vars

\* ------------------------------------------------------------------- claims
SetupSteps == {"chromium_launch", "new_page"}
JoinSteps == {"resolve_url", "goto", "continue_button", "name_input", "join_now",
              "lobby_check", "in_call_check"}
CaptionSteps == {"enable_captions", "subscribe_captions"}

\* launch() settles as rejected in this step.
LaunchRejects == launchResult = "pending" /\ launchResult' = "rejected"

\* No record of h carries a createdAt later than the clock reads now.
NoLaterRecord(h) == \A i \in 1 .. Len(h) : h[i].createdAt <= now

\* C1, as stated: when a step of launch() fails, launch() rejects with the
\* step's error, the last record of the Orchestrator history is fatal when
\* launch() settles, and no step ran twice.
C1_LastRecordIsFatal ==
    /\ [](stepFailure # "none" => launchResult = "rejected" /\ launchRejection = stepFailure)
    /\ [](\A s \in LaunchSteps : stepRuns[s] <= 1)
    /\ [][LaunchRejects => LastStatus(statusChanges') = "fatal"]_vars

\* C1, as amended: when a step of launch() fails, launch() rejects with the
\* step's error, it has added a fatal record to the Orchestrator history when
\* it settles, that record is the last one unless an older record carries a
\* later createdAt (the clock was set back), and no step ran twice.
C1_LaunchFailureIsFatal ==
    /\ [](stepFailure # "none" => launchResult = "rejected" /\ launchRejection = stepFailure)
    /\ [](\A s \in LaunchSteps : stepRuns[s] <= 1)
    /\ [][LaunchRejects =>
            /\ stepFailure' # "none"
            /\ Count(statusChanges', "fatal") > Count(statusChanges, "fatal")
            /\ NoLaterRecord(statusChanges) => LastStatus(statusChanges') = "fatal"]_vars

\* C1's case: the in-call check failed and launch() has rejected.
C1_Witness ==
    /\ launchResult = "rejected"
    /\ stepFailure = "unknown_page_error"
    /\ LastStatus(statusChanges) = "fatal"

\* The records other than fatal of a history, per status.
NonFatal(h) == [s \in (OrchestratorStatus \cup JoinProcedureStatus) \ {"fatal"} |-> Count(h, s)]

\* C2: fatal is absorbing: once a history holds a fatal record, no record with
\* another status is added to it.
C2_FatalIsAbsorbing ==
    [][/\ Count(statusChanges, "fatal") > 0 => NonFatal(statusChanges') = NonFatal(statusChanges)
       /\ Count(jpStatusChanges, "fatal") > 0 => NonFatal(jpStatusChanges') = NonFatal(jpStatusChanges)]_vars

\* C3: the phases of one launch() run in the sequence setup, join, captions:
\* a step of the join phase is pending only after this call recorded
\* launching, a step of the caption phase only after this call recorded
\* in_call_not_recording and the join phase's done, each earlier step ran once
\* and no later step has run, and no step is pending after a failure.
C3_PhasesInSequence ==
    /\ launchPc \in LaunchSteps =>
          /\ stepFailure = "none"
          /\ Count(statusChanges, "fatal") = base.fatal
    /\ launchPc \in SetupSteps =>
          \A s \in JoinSteps \cup CaptionSteps : stepRuns[s] = 0
    /\ launchPc \in JoinSteps =>
          /\ Count(statusChanges, "launching") = base.launching + 1
          /\ Count(statusChanges, "joining") = base.joining + 1
          /\ \A s \in SetupSteps : stepRuns[s] = 1
          /\ \A s \in CaptionSteps : stepRuns[s] = 0
    /\ launchPc \in CaptionSteps =>
          /\ Count(statusChanges, "launching") = base.launching + 1
          /\ Count(statusChanges, "in_call_not_recording") = base.in_call_not_recording + 1
          /\ PhaseDone(statusChanges) = base.done + 1
          /\ \A s \in SetupSteps \cup (JoinSteps \ {"lobby_check"}) : stepRuns[s] = 1

\* C3's case: the caption phase is running.
C3_Witness == launchPc = "subscribe_captions"

\* ------------------------------------------------------------ Notifier claims
HttpProtocols == {"http:", "https:"}
WsProtocols == {"ws:", "wss:"}
Failures == {"invalid_url", "unsupported_protocol", "http_not_ok", "http_error",
             "http_not_sent", "ws_raised"}
Successes == {"http_ok", "ws_sent"}

\* The destinations call i is through with.
Tried(i) == {senders[i].tried[k] : k \in 1 .. Len(senders[i].tried)}

\* C4: one call of sendEventToServer goes through the configured destinations
\* in order and leaves none out, whatever the outcome of the earlier ones:
\* while it runs it is at the destination after the ones it is through with,
\* when it has settled it is through with all of them, a ws destination had at
\* least one connection attempt and an http destination its request.
C4_FanOutIndependence ==
    \A i \in Senders :
        LET sd == senders[i] IN
        /\ \A k \in 1 .. Len(sd.tried) :
              /\ k <= Len(urls)
              /\ sd.tried[k].url = urls[k]
              /\ sd.tried[k].outcome \in Failures \cup Successes
              /\ Protocol(urls[k]) \in WsProtocols => sd.tried[k].attempts >= 1
              /\ Protocol(urls[k]) \in HttpProtocols /\ sd.payloadOk
                    => sd.tried[k].requests = 1
        /\ Active(sd) =>
              /\ sd.idx = Len(sd.tried) + 1
              /\ sd.idx <= Len(urls)
              /\ sd.url = urls[sd.idx]
        /\ sd.pc = "done" => Len(sd.tried) = Len(urls)

\* C4: a call has settled whose first destination failed and whose second
\* destination got the payload.
C4_Witness ==
    /\ senders[1].pc = "done"
    /\ Len(senders[1].tried) = 2
    /\ senders[1].tried[1].outcome \in Failures
    /\ senders[1].tried[2].outcome \in Successes

\* C5: a call of _sendWsWithRetry makes at most `retries` attempts; when it
\* raises, every attempt has failed, it has made exactly `retries` attempts and
\* awaited one delay less, nothing was sent, and what it raises is the error of
\* its last attempt.  It ends in no other way than by raising so or by sending.
C5_RetryExhaustion ==
    \A i \in Senders :
        /\ Active(senders[i]) /\ Protocol(senders[i].url) \in WsProtocols =>
              /\ senders[i].cur.attempts <= senders[i].retries
              /\ Len(senders[i].cur.delays) < senders[i].retries
        /\ \A d \in Tried(i) :
              Protocol(d.url) \in WsProtocols =>
                 /\ d.outcome \in {"ws_raised", "ws_sent"}
                 /\ d.outcome = "ws_raised" =>
                       /\ d.attempts = d.retries
                       /\ Len(d.delays) = d.retries - 1
                       /\ d.sends = 0
                       /\ d.thrown = d.error
                       /\ d.thrown # "none"
                       /\ senders[i].direct => senders[i].raised

\* C5: a call with the default ceiling has raised after a last attempt that
\* failed in sending.
C5_Witness ==
    \E d \in Tried(1) :
        /\ d.outcome = "ws_raised"
        /\ d.retries = DefaultRetries
        /\ d.attempts = DefaultRetries
        /\ d.thrown = "send_error"

\* The backoff delays of a call: the first is 200 ms and each is twice the one
\* before it.
Doubling(delays) ==
    /\ Len(delays) > 0 => delays[1] = 200
    /\ \A k \in 1 .. Len(delays) - 1 :
          delays[k + 1] = 2 * delays[k] /\ delays[k + 1] > delays[k]

\* C6: when the first k attempts of a call of _sendWsWithRetry fail and the
\* next one succeeds, the call has made k + 1 attempts, has sent the payload
\* once, has not raised, and has awaited k delays of 200 ms, 400 ms, ...,
\* each twice the one before.
C6_RetryWithBackoff ==
    \A i \in Senders :
        /\ Doubling(senders[i].cur.delays)
        /\ \A d \in Tried(i) :
              /\ Doubling(d.delays)
              /\ d.outcome = "ws_sent" =>
                    /\ d.attempts = Len(d.delays) + 1
                    /\ d.attempts <= d.retries
                    /\ d.sends = 1
                    /\ d.thrown = "none"
                    /\ ~senders[i].raised

\* C6: a call succeeded on its third attempt, after delays of 200 and 400 ms.
C6_Witness ==
    \E d \in Tried(1) :
        d.outcome = "ws_sent" /\ d.attempts = 3 /\ d.delays = <<200, 400>>

\* C6: the longest wait: four failures, success on the fifth attempt.
C6_WitnessLongest ==
    \E d \in Tried(1) :
        d.outcome = "ws_sent" /\ d.delays = <<200, 400, 800, 1600>>

\* The WebSockets that are being opened or are open for url.
Connections(url) ==
    {s \in Sockets : sockets[s].url = url /\ sockets[s].readyState \in {"CONNECTING", "OPEN"}}

\* C7, as stated: at no time is more than one WebSocket being opened or held
\* open for the same URL.
C7_OneConnectionPerUrl ==
    \A url \in WsUrls : Cardinality(Connections(url)) <= 1

\* Socket s, the cached connection of its URL, reports an error or closes in
\* this step.
ErrorOrClose(s) ==
    /\ sockets[s].readyState # "NONE"
    /\ wsConnections[sockets[s].url] = s
    /\ \/ sockets'[s].readyState = "NONE"
       \/ ~crashed /\ crashed'

\* C8, as stated: when the cached connection of a URL reports an error or
\* closes, its entry is removed from the cache, and the Notifier is there to
\* establish a new connection on the next send.
C8_EvictedOnErrorOrClose ==
    [][\A s \in Sockets :
          ErrorOrClose(s) => wsConnections'[sockets[s].url] # s /\ ~crashed']_vars

\* Call i constructs a WebSocket in this step.
Creates(i) ==
    /\ senders'[i].pc = "ws_connecting"
    /\ senders'[i] # senders[i]

\* C9: a WebSocket comes into being only when a send to its URL makes an
\* attempt, and no send constructs one for a URL while the cache holds an open
\* connection for that URL: the send uses the cached one.
C9_LazyAndReused ==
    /\ [](sendCalls = 0 => \A s \in Sockets : sockets[s].readyState = "NONE")
    /\ [][\A s \in Sockets :
             sockets[s].readyState = "NONE" /\ sockets'[s].readyState # "NONE" =>
                \E i \in Senders :
                   /\ Creates(i)
                   /\ senders'[i].ws = s
                   /\ senders'[i].url = sockets'[s].url
                   /\ sockets'[s].readyState = "CONNECTING"]_vars
    /\ [][\A i \in Senders :
             Creates(i) =>
                LET url == senders'[i].url IN
                ~(/\ wsConnections'[url] # 0
                  /\ sockets'[wsConnections'[url]].readyState = "OPEN")]_vars
    /\ [](\A i \in Senders : \A d \in Tried(i) : d.created <= d.attempts)

\* C9: the second of two calls that did not overlap sent on the cached
\* connection at its first attempt and constructed no WebSocket.
C9_Witness ==
    /\ sendCalls = 2
    /\ senders[2].pc = "idle"
    /\ ~crashed
    /\ \E d \in Tried(1) :
          d.outcome = "ws_sent" /\ d.created = 0 /\ d.attempts = 1 /\ d.sends = 1

\* C10: an http destination gets no more than one request per event, and
\* exactly one when the request had an outcome (a response with or without an
\* ok status, or a network error); _sendHttp makes no further attempt, awaits
\* no delay and raises nothing.
C10_HttpSingleBestEffort ==
    \A i \in Senders :
        /\ senders[i].pc = "http_wait" => senders[i].cur.requests = 1
        /\ ~senders[i].raised
        /\ \A d \in Tried(i) :
              Protocol(d.url) \in HttpProtocols =>
                 /\ d.requests <= 1
                 /\ d.outcome \in {"http_ok", "http_not_ok", "http_error"} => d.requests = 1
                 /\ d.outcome \in {"http_ok", "http_not_ok", "http_error", "http_not_sent"}
                 /\ d.attempts = 0
                 /\ d.delays = <<>>
                 /\ d.thrown = "none"

\* C10: a call is through with an http destination whose request failed, and
\* is through with the destination after it.
C10_Witness ==
    /\ Len(senders[1].tried) = 2
    /\ Protocol(senders[1].tried[1].url) \in HttpProtocols
    /\ senders[1].tried[1].outcome \in {"http_not_ok", "http_error"}
    /\ senders[1].tried[1].requests = 1

\* C11: whatever JoinProcedure methods are called on one instance, its history
\* holds the in_waiting_room record at most once.
C11_LobbyRecordedOnce == Count(jpStatusChanges, "in_waiting_room") <= 1

\* C12: whatever JoinProcedure methods are called on one instance, its history
\* holds the joined record at most once, also when a leave flow that failed or
\* other records come between two in-call checks that see the hang-up button.
C12_JoinedRecordedOnce == Count(jpStatusChanges, "joined") <= 1

\* C13: a probe called with a number (or nothing) for waitForSeconds whose
\* element did not appear within the timeout returns false, raises nothing and
\* leaves the JoinProcedure's history as it was.
C13_NegativeProbeIsFalse ==
    [][(/\ jpLast'.n # jpLast.n
        /\ jpLast'.op \in Probes
        /\ jpLast'.wait \in {"undefined", "0", "1", "10"}
        /\ ~jpLast'.appeared)
       => (jpLast'.result = "false" /\ jpStatusChanges' = jpStatusChanges)]_vars

\* C13: the bot was seen in the meeting, and a later in-call check with a wait
\* of ten seconds did not find the hang-up button.
C13_Witness ==
    /\ jpLast.op = "isInMeeting"
    /\ jpLast.wait = "10"
    /\ jpLast.timeout = 10000
    /\ jpLast.result = "false"
    /\ Count(jpStatusChanges, "joined") = 1

\* The records _close adds after browser.close().
CloseDone(h) ==
    Cardinality({i \in 1 .. Len(h) : h[i].status = "done" /\ h[i].message = "Browser closed"})

\* C14: a shutdown() that found the bot in the call settles with the browser
\* closed and the log file closed, whether or not the leave flow failed, and
\* rejects with nothing but an error of browser.close().
C14_ShutdownReleases ==
    [][(closePc # "idle" /\ closePc' = "idle" /\ closeInCall = "yes")
       => (/\ closeRejection' \in {"none", "browser_close_error"}
           /\ closeRejection' = "none" => (browser \notin browserOpen' /\ logClosed'))]_vars

\* C15: a shutdown() that finds the bot in the call runs the leave flow next,
\* and calls browser.close() and records the closing done only when call_ended
\* has been added to the Orchestrator's history; a shutdown() that finds the
\* bot not in the call runs no leave flow and adds no call_ended.
C15_LeavesMeetingFirst ==
    [][/\ (closePc = "close_in_call_check" /\ closeInCall' = "yes")
             => closePc' = "leave_meeting"
       /\ (closePc = "close_in_call_check" /\ closeInCall' = "no")
             => closePc' = "browser_close"
       /\ (closePc' = "browser_close" /\ closeInCall' = "yes")
             => Count(statusChanges', "call_ended") = closeBase' + 1
       /\ (closeInCall = "yes" /\ closing # 0 /\ closing \notin browserOpen')
             => Count(statusChanges, "call_ended") = closeBase + 1
       /\ (closeInCall = "yes" /\ CloseDone(statusChanges') # CloseDone(statusChanges))
             => Count(statusChanges, "call_ended") = closeBase + 1
       /\ closeInCall' = "no"
             => (/\ closePc' # "leave_meeting"
                 /\ Count(statusChanges', "call_ended") = closeBase')]_vars

\* C15: a shutdown() during the call is through: the meeting was left, then
\* the browser was closed.
C15_Witness ==
    /\ closeResult = "resolved"
    /\ closeInCall = "yes"
    /\ Count(statusChanges, "call_ended") = closeBase + 1
    /\ CloseDone(statusChanges) = 1
    /\ browser \notin browserOpen

\* The history is in non-decreasing order of createdAt.
Sorted(h) == \A i \in 1 .. Len(h) - 1 : h[i].createdAt <= h[i + 1].createdAt

\* C16: after every append of the Orchestrator and of the JoinProcedure, with
\* clock readings that rise, repeat or fall, the history is sorted
\* non-decreasing by createdAt.
C16_HistorySorted == Sorted(statusChanges) /\ Sorted(jpStatusChanges)

\* C16: after the clock was set back, appends put records before older ones in
\* both histories.
C16_Witness ==
    /\ backSteps = 1
    /\ Len(statusChanges) >= 3
    /\ statusChanges[1].status # "initializing"
    /\ Len(jpStatusChanges) >= 2
    /\ jpStatusChanges[1].status # "initializing"

\* The records of h are all in h2, as they were and in their order.
RECURSIVE Kept(_, _)
Kept(h, h2) ==
    IF h = <<>> THEN TRUE
    ELSE IF Len(h2) < Len(h) THEN FALSE
    ELSE IF Head(h) = Head(h2) THEN Kept(Tail(h), Tail(h2))
    ELSE Kept(h, Tail(h2))

\* C17: every step leaves a history as it was or adds records to it, one for
\* each append: the records it held are all kept, unmodified, and the length
\* never decreases; an append to the history, at any clock reading, adds
\* exactly one record; and botId, meetingUrl and notifierUrls of
\* the state are as they were.
C17_HistoryOnlyGrows ==
    [][/\ Kept(statusChanges, statusChanges')
       /\ Len(statusChanges') >= Len(statusChanges)
       /\ Kept(jpStatusChanges, jpStatusChanges')
       /\ Len(jpStatusChanges') >= Len(jpStatusChanges)
       /\ \A t \in Clock :
             LET added == OrchestratorAddStatusChange(statusChanges', "unknown", "null",
                                                      "null", t)
             IN  Len(added) = Len(statusChanges') + 1 /\ Kept(statusChanges', added)
       /\ botId' = botId
       /\ meetingUrlIsUrl' = meetingUrlIsUrl
       /\ notifierUrls' = notifierUrls]_vars

\* C17: both histories have grown, under a clock that was set back, in an
\* Orchestrator that has notifier URLs.
C17_Witness ==
    /\ Len(statusChanges) >= 5
    /\ Len(jpStatusChanges) >= 4
    /\ backSteps = 1
    /\ notifierUrls # <<>>

\* The requests that carried (or were given) the bot identifier id.
RequestsOf(id) == {r \in Requests : requests[r].botId = id}

\* C18: of the requests for one bot identifier, sent one after the other or
\* overlapping, at most one is answered 202 and has a running container; the
\* container of a request is named teams-bot-<botId>.
C18_OneInstancePerBot ==
    /\ \A id \in BotIds :
          Cardinality({r \in RequestsOf(id) : requests[r].status = 202}) <= 1
    /\ \A r \in Requests :
          requests[r].status = 202 =>
             /\ requests[r].containerName =
                    [prefix |-> "teams-bot-", botId |-> requests[r].botId]
             /\ containers[requests[r].containerName] = "running"
    /\ \A c \in ContainerNames :
          containers[c] # "absent" =>
             Cardinality({r \in RequestsOf(c.botId) : requests[r].created}) = 1

\* C18: two requests for the same bot overlapped; the one sent second created
\* the container and was answered 202, the other one was refused the name.
C18_Witness ==
    /\ requests[1].botId = GivenUUID
    /\ requests[2].botId = GivenUUID
    /\ requests[2].status = 202
    /\ requests[1].status = 500
    /\ requests[1].error = {"name_in_use"}

\* C19: a request that the daemon failed (at the creation, or at the start
\* after the creation) is answered 500 with the failure message, and leaves no
\* container of its bot behind: a container that is created and not running
\* belongs to a request that is still starting it.
C19_NoPartialState ==
    /\ \A r \in Requests :
          requests[r].status = 500 => requests[r].error # {}
    /\ \A c \in ContainerNames :
          containers[c] = "created" =>
             \E r \in RequestsOf(c.botId) : requests[r].pc = "start"

\* A body that the schema of the request refuses.
Refused(body) ==
    \/ body.port = "string"
    \/ body.meetingUrl # "url"
    \/ body.notifierUrls = "object"
    \/ body.botId = "text"

\* C20: a request whose body fails the validation is answered 400 with the
\* fields that failed, and the daemon is never asked to create or start a
\* container for it.
C20_ValidationFirst ==
    /\ \A r \in Requests :
          (requests[r].pc # "none" /\ Refused(requests[r].body)) =>
             /\ requests[r].pc = "done"
             /\ requests[r].status = 400
             /\ requests[r].error # {}
             /\ requests[r].error \subseteq {"port", "meetingUrl", "notifierUrls", "botId"}
             /\ ~requests[r].created
             /\ requests[r].containerName = "none"
    /\ (\A r \in Requests : requests[r].pc # "none" => Refused(requests[r].body))
          => \A c \in ContainerNames : containers[c] = "absent"

\* C20: a request with a botId that is no uuid was answered 400, and the next
\* one, a valid one, has its container running.
C20_Witness ==
    /\ requests[1].body.botId = "text"
    /\ requests[1].body.meetingUrl = "url"
    /\ requests[1].status = 400
    /\ requests[1].error = {"botId"}
    /\ requests[2].status = 202

\* C21: a request is answered once, and only when the handler is through with
\* it: 202 exactly when its container was created and started, 400 exactly
\* when its body was refused, 500 exactly when the daemon failed to create or
\* to start the container.  The 202 body has the botId that was sent (a
\* generated one when none was), the port that was sent (one of 4100..4199
\* when none was), which is the port published for the container and its PORT,
\* and the container's name teams-bot-<botId>.
C21_OneResponsePerRequest ==
    \A r \in Requests :
        LET q == requests[r]
            refused == \/ q.body.port = "string"
                       \/ q.body.meetingUrl # "url"
                       \/ q.body.notifierUrls = "object"
                       \/ q.body.botId = "text"
        IN  /\ q.responses = (IF q.pc = "done" THEN 1 ELSE 0)
            /\ q.responses = 0 <=> q.status = 0
            /\ q.status \in {0, 202, 400, 500}
            /\ q.status = 202 <=> (q.created /\ q.started)
            /\ q.status = 400 <=> (q.pc # "none" /\ refused)
            /\ q.status = 500 <=>
                  q.error \cap {"name_in_use", "create_failed", "start_failed"} # {}
            /\ q.status = 500 => ~q.started
            /\ q.status = 202 =>
                  /\ q.answer.botId = (IF q.body.botId = "uuid" THEN GivenUUID
                                       ELSE [kind |-> "random", n |-> r])
                  /\ q.body.port = "number" => q.answer.port \in SuppliedPorts
                  /\ q.body.port = "undefined" =>
                        (q.answer.port >= 4100 /\ q.answer.port <= 4199)
                  /\ q.containerName = [prefix |-> "teams-bot-", botId |-> q.answer.botId]
                  /\ containers[q.containerName] = "running"
                  /\ bindings[q.containerName].hostPort = q.answer.port
                  /\ bindings[q.containerName].containerPort = q.answer.port
                  /\ bindings[q.containerName].env.PORT = q.answer.port
                  /\ bindings[q.containerName].env.BOT_ID = q.answer.botId

\* C21: a request without botId and port was answered 202 with the highest
\* port of the range, after a request that the daemon failed.
C21_Witness ==
    /\ requests[1].status = 500
    /\ requests[2].status = 202
    /\ requests[2].body.botId = "undefined"
    /\ requests[2].body.port = "undefined"
    /\ requests[2].answer.port = 4199

\* C22: a step of launch() or of shutdown() in which the JoinProcedure records
\* fatal also adds a fatal record to the Orchestrator's history, and the
\* operation rejects.
C22_FatalReachesOrchestrator ==
    [][Count(jpStatusChanges', "fatal") > Count(jpStatusChanges, "fatal")
       => (/\ Count(statusChanges', "fatal") > Count(statusChanges, "fatal")
           /\ \/ launchPc # "idle" /\ launchPc' = "idle" /\ launchResult' = "rejected"
              \/ closePc # "idle" /\ closePc' = "idle" /\ closeResult' = "rejected")]_vars

\* C23: when the launch URL is not resolved, startMeetingLauncherFlow throws,
\* page.goto is not called, and the last record of the JoinProcedure's history
\* is fatal with subCode unresolvable_launch_url.
C23_UnresolvableIsLast ==
    [][(launchPc = "resolve_url" /\ launchPc' = "idle")
       => (/\ launchResult' = "rejected"
           /\ navigations' = navigations
           /\ jpStatusChanges'[Len(jpStatusChanges')].status = "fatal"
           /\ jpStatusChanges'[Len(jpStatusChanges')].subCode = "unresolvable_launch_url")]_vars

\* The history h without its k-th record.
Without(h, k) == [i \in 1 .. Len(h) - 1 |-> IF i < k THEN h[i] ELSE h[i + 1]]

\* C23, amended: when the launch URL is not resolved, startMeetingLauncherFlow
\* throws, page.goto is not called, and the JoinProcedure's history gains
\* fatal/resolve_redirect_error and after it fatal/unresolvable_launch_url; the
\* latter is the last record unless an older record has a later createdAt.
C23_UnresolvableIsRecorded ==
    [][(launchPc = "resolve_url" /\ launchPc' = "idle")
       => (/\ launchResult' = "rejected"
           /\ stepFailure' = "unresolvable_launch_url_error"
           /\ navigations' = navigations
           /\ \E i, j \in 1 .. Len(jpStatusChanges') :
                 /\ i < j
                 /\ jpStatusChanges'[i] =
                        [status |-> "fatal", subCode |-> "resolve_redirect_error",
                         message |-> "null", createdAt |-> now]
                 /\ jpStatusChanges'[j].status = "fatal"
                 /\ jpStatusChanges'[j].subCode = "unresolvable_launch_url"
                 /\ jpStatusChanges'[j].createdAt = now
                 /\ Without(Without(jpStatusChanges', j), i) = jpStatusChanges
                 /\ (\A k \in 1 .. Len(jpStatusChanges) : jpStatusChanges[k].createdAt <= now)
                       => j = Len(jpStatusChanges'))]_vars

\* C23: the launch URL was not resolved after the clock was set back: the two
\* fatal records stand before the JoinProcedure's first record.
C23_Witness ==
    /\ stepFailure = "unresolvable_launch_url_error"
    /\ Len(jpStatusChanges) = 3
    /\ jpStatusChanges[2].subCode = "unresolvable_launch_url"
    /\ jpStatusChanges[3].status = "initializing"
    /\ navigations = 0

\* C24: when the wait for a required element fails in startMeetingLauncherFlow
\* (the interstitial button), joinMeetingLobbyFlow (the name field, the join
\* button) or leaveMeetingFlow (the hang-up button), the JoinProcedure's
\* history gains exactly one record, fatal without subCode, and the error
\* reaches the caller.
C24_RequiredStepFailsFatally ==
    [][/\ (\/ /\ launchPc \in {"continue_button", "name_input", "join_now"}
              /\ launchPc' = "idle"
           \/ /\ closePc = "leave_meeting"
              /\ closePc' = "idle")
          => \E k \in 1 .. Len(jpStatusChanges') :
                /\ jpStatusChanges'[k] = [status |-> "fatal", subCode |-> "null",
                                          message |-> "null", createdAt |-> now]
                /\ Without(jpStatusChanges', k) = jpStatusChanges
       /\ (launchPc \in {"continue_button", "name_input", "join_now"} /\ launchPc' = "idle")
          => (/\ launchResult' = "rejected"
              /\ launchRejection' \in {"continue_button_error", "name_input_error",
                                       "join_now_error"})
       /\ (closePc = "leave_meeting" /\ closePc' = "idle")
          => (closeResult' = "rejected" /\ closeRejection' = "leave_meeting_error")]_vars

\* C24: the join button was not found, and launch() rejected with that error.
C24_Witness ==
    /\ launchRejection = "join_now_error"
    /\ Count(jpStatusChanges, "fatal") = 1
    /\ Count(jpStatusChanges, "joining") = 1

\* Where the one record with this status stands in the history.
Pos(h, status) == CHOOSE i \in 1 .. Len(h) : h[i].status = status

\* The first launch() went through the join phase after seeing the lobby.
JoinedThroughLobby ==
    /\ launchCalls = 1
    /\ stepRuns["enable_captions"] >= 1
    /\ Count(statusChanges, "in_waiting_room") = 1

QueryStep(via) == lastQuery'.n # lastQuery.n /\ lastQuery'.via = via

\* The caption phase of launch() was never entered: launch() was not called,
\* or it has not reached the phase, or it failed before it.
CaptionsNeverStarted == launchCalls = 0 \/ stepRuns["enable_captions"] = 0

\* C26: getCaptions() fails with a precondition error whenever the captions
\* procedure was never started (launch() not called, still before the caption
\* phase, or failed before it); otherwise it returns the captions the
\* procedure has accumulated, and either way it changes no state.
C26_GetCaptionsNeedsProcedure ==
    [][QueryStep("getCaptions") =>
         /\ CaptionsNeverStarted =>
              lastQuery'.thrown = "precondition_error"
         /\ ~CaptionsNeverStarted =>
              lastQuery'.thrown = "none" /\ lastQuery'.captions = captions
         /\ UNCHANGED <<orchVars, notifierVars, joinVars, captions, dispatches, bot, mainPc>>]_vars

\* The second call of getCaptions() is answered with the line the procedure
\* has captured.
C26_Witness ==
    /\ lastQuery.via = "getCaptions"
    /\ lastQuery.n = 2
    /\ lastQuery.thrown = "none"
    /\ Len(lastQuery.captions) = 1
    /\ queries = 2

\* C27: GET /captions answers 503 whenever the bot is not yet initialized,
\* 500 only on an internal failure, and the captions otherwise; a request
\* that arrives while launch() is in progress and the captions have not been
\* started is answered 503, not 500.
C27_NotInitializedIs503 ==
    [][QueryStep("GET /captions") =>
         /\ (bot = 0 \/ CaptionsNeverStarted) => lastQuery'.status = 503
         /\ (bot # 0 /\ ~CaptionsNeverStarted) =>
              lastQuery'.status = 200 /\ lastQuery'.captions = captions]_vars

\* C28: no two lifecycle phases run concurrently: however calls of launch()
\* and shutdown() interleave, teardown never runs while a step of launch() is
\* pending.
C28_NoTeardownDuringLaunch == ~(launchPc # "idle" /\ closePc # "idle")

\* The ports of the searched range that no process listens on.
ScanFree == {p \in scan.START_PORT .. scan.END_PORT : p \notin scan.inUse}

\* The search of a range is over.
ScanOver ==
    \/ scan.caller = "direct" /\ scan.pc = "returned"
    \/ scan.caller = "standalone" /\ scan.supplied = 0 /\ scan.pc # "scanning"

\* C29: find_free_port returns the smallest port of its range that is not in
\* use and fails when every port of the range is in use; the standalone
\* launch uses a supplied PORT unchanged and without a search, and starts no
\* instance when the search finds no free port.
C29_SmallestFreePort ==
    /\ (ScanOver /\ ScanFree # {}) =>
          /\ scan.FREE_PORT \in ScanFree
          /\ \A p \in ScanFree : scan.FREE_PORT <= p
          /\ scan.caller = "direct" => scan.status = 0
          /\ scan.caller = "standalone" => scan.PORT = scan.FREE_PORT
    /\ (ScanOver /\ ScanFree = {}) =>
          /\ scan.FREE_PORT = 0
          /\ scan.status = 1
          /\ scan.caller = "standalone" => scan.pc = "exited" /\ scan.published = 0
    /\ (scan.caller = "standalone" /\ scan.supplied # 0) =>
          /\ scan.checks = 0
          /\ scan.PORT = scan.supplied
          /\ scan.pc = "running" => scan.published = scan.supplied
    /\ scan.pc = "running" => scan.published = scan.PORT

\* With 4101 to 4103 in use the standalone launch runs the instance on 4104.
C29_Witness ==
    /\ scan.caller = "standalone"
    /\ scan.inUse = {4101, 4102, 4103}
    /\ scan.checks = 4
    /\ scan.pc = "running"
    /\ scan.published = 4104

\* Every port from 4101 to 4199 is in use and the standalone launch ends
\* without an instance.
C29_WitnessNoFreePort ==
    /\ scan.caller = "standalone"
    /\ scan.inUse = 4101 .. 4199
    /\ scan.checks = 99
    /\ scan.pc = "exited"
    /\ scan.published = 0

\* How often the capture loop saw the line finalized.
SeenFinalized(l) ==
    Cardinality({i \in 1 .. Len(observations) :
                    observations[i] = [line |-> l, finalized |-> TRUE]})

\* How often the line stands in the transcript.
Entries(l) == Cardinality({i \in 1 .. Len(captions) : captions[i] = l})

\* C30: caption capture emits each finalized line exactly once: one dispatch
\* to the Notifier and one entry of the transcript per finalized line, also
\* when the line is observed more than once; a line never seen finalized is
\* not emitted.
C30_FinalizedLineOnce ==
    \A l \in Lines :
        /\ SeenFinalized(l) >= 1 => dispatches[l] = 1 /\ Entries(l) = 1
        /\ SeenFinalized(l) = 0 => dispatches[l] = 0 /\ Entries(l) = 0

\* A line was observed finalized twice and emitted once.
C30_Witness ==
    \E l \in Lines :
        /\ SeenFinalized(l) = 2
        /\ dispatches[l] = 1
        /\ Entries(l) = 1

\* C31: sendEventToServer never raises to its caller: for every list of
\* destinations and every outcome of each, the call settles after the last
\* destination was attempted, without an error; the destinations are
\* attempted one at a time in the configured order, each only after the one
\* before it has settled with all its retries; and a call that has started is
\* not given up before it settles.
C31_NeverRaisesAlwaysSettles ==
    [][\A i \in Senders :
          LET before == senders[i]
              after == senders'[i]
          IN  /\ ~after.direct => ~after.raised
              /\ (~after.direct /\ after.pc = "done") =>
                    /\ Len(after.tried) = Len(urls)
                    /\ \A k \in 1 .. Len(urls) : after.tried[k].url = urls[k]
              /\ (~after.direct /\ Active(after)) =>
                    /\ after.idx = Len(after.tried) + 1
                    /\ after.url = urls[after.idx]
              /\ (~before.direct /\ Active(before)) =>
                    /\ after.pc # "idle"
                    /\ Len(after.tried) >= Len(before.tried)
                    /\ \A k \in 1 .. Len(before.tried) : after.tried[k] = before.tried[k]]_vars

\* C32: a close event evicts only its own connection: the cache entry of a
\* URL that maps to an open connection is removed only in a step in which
\* that connection itself closes or fails, never by the late close or error
\* of another, superseded connection to the same URL.
C32_CloseEvictsOwnEntry ==
    [][\A u \in WsUrls :
          (/\ wsConnections[u] # 0
           /\ sockets[wsConnections[u]].readyState = "OPEN"
           /\ wsConnections'[u] # wsConnections[u])
          => sockets'[wsConnections[u]].readyState # "OPEN"]_vars

\* C33: in the bot process a rejection of launch() is handled by main: the
\* step in which launch() rejects ends in the catch block of main, which logs
\* the startup failure and exits with code 1, and no GET /captions request is
\* answered after launch() has failed.
C33_LaunchFailureEndsProcess ==
    [][/\ (launchResult # "rejected" /\ launchResult' = "rejected") => mainPc' = "exited"
       /\ QueryStep("GET /captions") => launchResult # "rejected"]_vars

\* The check of _joinMeeting that settles in this step.
LobbyStep == launchPc = "lobby_check" /\ launchPc' # "lobby_check"
InCallStep == launchPc = "in_call_check" /\ launchPc' # "in_call_check"

\* The records of a status this step adds to the Orchestrator history.
Added(status) == Count(statusChanges', status) - Count(statusChanges, status)

UnknownPage(h) ==
    Cardinality({i \in 1 .. Len(h) : h[i].status = "fatal" /\ h[i].subCode = "unknown_page"})

\* C34: the in-call check decides the join phase alone.  When isInMeeting
\* returns false the Orchestrator appends fatal with subCode unknown_page and
\* launch() fails, when it returns true the join goes on, in both cases
\* whether or not the lobby was observed; the lobby check fails nothing, and
\* in_waiting_room is recorded only by a lobby check that returned true.
C34_InCallCheckDecides ==
    [][/\ InCallStep =>
             \/ /\ launchPc' = "enable_captions"
                /\ launchResult' = "pending"
                /\ Added("in_call_not_recording") = 1
                /\ UnknownPage(statusChanges') = UnknownPage(statusChanges)
                /\ Count(jpStatusChanges', "joined") >= 1
             \/ /\ launchResult' = "rejected"
                /\ launchRejection' = "unknown_page_error"
                /\ UnknownPage(statusChanges') = UnknownPage(statusChanges) + 1
                /\ Added("in_call_not_recording") = 0
                /\ jpStatusChanges' = jpStatusChanges
       /\ LobbyStep =>
             /\ launchPc' = "in_call_check"
             /\ launchResult' = "pending"
             /\ Added("fatal") = 0
             /\ Added("in_waiting_room") = 1 => Count(jpStatusChanges', "in_waiting_room") >= 1
       /\ ~LobbyStep => Added("in_waiting_room") = 0]_vars

\* A launch that saw the lobby and failed at the in-call check.
C34_Witness ==
    /\ launchCalls = 1
    /\ launchResult = "rejected"
    /\ stepFailure = "unknown_page_error"
    /\ Count(statusChanges, "in_waiting_room") = 1
    /\ UnknownPage(statusChanges) = 1

\* A launch that joined without the lobby having been observed.
C34_WitnessNoLobby ==
    /\ launchCalls = 1
    /\ Count(statusChanges, "in_call_not_recording") = 1
    /\ Count(statusChanges, "in_waiting_room") = 0

\* The Orchestrator's records of the lobby and of the call have their
\* counterparts in the JoinProcedure history.
Correlated ==
    /\ Count(statusChanges, "in_call_not_recording") >= 1 =>
          Count(jpStatusChanges, "joined") >= 1
    /\ Count(statusChanges, "in_waiting_room") >= 1 =>
          Count(jpStatusChanges, "in_waiting_room") >= 1

\* C35: the two status histories stay correlated: in every reachable state
\* in_call_not_recording in the Orchestrator history implies joined in the
\* JoinProcedure history, in_waiting_room implies in_waiting_room, and the
\* first record of each history is initializing.
C35_HistoriesCorrelated ==
    /\ Correlated
    /\ statusChanges[1].status = "initializing"
    /\ jpStatusChanges # <<>> => jpStatusChanges[1].status = "initializing"

\* The history has one initializing record, and only records with an earlier
\* createdAt stand before it.
InitializingLeads(h) ==
    /\ Count(h, "initializing") = 1
    /\ \A i \in 1 .. Len(h) :
          i < Pos(h, "initializing") => h[i].createdAt < h[Pos(h, "initializing")].createdAt

\* C35, amended: the same correlation; each history holds its initializing
\* record, which is the first record unless records with an earlier
\* createdAt were added after the clock was set back.
C35_HistoriesCorrelatedByTime ==
    /\ Correlated
    /\ InitializingLeads(statusChanges)
    /\ jpStatusChanges # <<>> => InitializingLeads(jpStatusChanges)

\* The bot is in the call, having been seen in the lobby, and the records of
\* the launch stand before initializing: the clock was set back.
C35_Witness ==
    /\ Count(statusChanges, "in_call_not_recording") >= 1
    /\ Count(statusChanges, "in_waiting_room") >= 1
    /\ Count(jpStatusChanges, "joined") >= 1
    /\ statusChanges[1].status # "initializing"

\* C36: no log record is written to a closed sink: the Loggers of one bot all
\* hold the one stream of the bot's streamId, no Logger writes to a stream
\* that was ended, and FileStreamer.close() of one instance ends only the
\* stream that instance holds, never one a newer instance opened.
C36_NoWriteToClosedSink ==
    [][/\ \A a, b \in Sources :
             (logs'.fileStream[a] # 0 /\ logs'.fileStream[b] # 0) =>
                logs'.fileStream[a] = logs'.fileStream[b]
       /\ logs'.lastWrite.n # logs.lastWrite.n => ~logs'.lastWrite.ended
       /\ (logs'.lastClose.n # logs.lastClose.n /\ ~logs'.lastClose.warned) =>
             logs'.lastClose.stream = logs'.lastClose.held]_vars

\* C37: launcher and bot agree on the configuration: for every request the
\* launcher validates and answers 202, the bot's envSchema accepts the Env
\* the launcher passed, reads the port back, and the notifier list it gets by
\* splitting NOTIFIER_URLS at the commas equals the notifierUrls of the
\* request (the empty list for an empty or absent one).
C37_LauncherAndBotAgree ==
    (config.pc = "parsed" /\ config.status = 202) =>
        /\ config.parsed.success
        /\ config.parsed.PORT = config.port
        /\ config.parsed.notifierUrls = config.notifierUrls

====
